---- MODULE Spec2Model ----
(***************************************************************************)
(* Access gate, rate limiter, key cache and session store of the           *)
(* forgetai backend.                                                       *)
(*                                                                         *)
(* Go strings are sequences of tokens.  Identities are spelled character   *)
(* by character (so that ":" and "*" inside an identity are visible to the *)
(* key format and to the KEYS pattern); route names, dates and uuids are   *)
(* single tokens that contain none of those characters.                    *)
(* Time is counted in minutes since midnight of day 0.                     *)
(***************************************************************************)
EXTENDS Integers, Sequences, FiniteSets, TLC

VARIABLES
    now,        \* time.Now(), minutes
    sessions,   \* SessionService.sessions: session id -> ChatSession
    appended,   \* history: session id -> every message ever appended to it
    lastSid,    \* the id GetOrCreateSession returned last
    owner,      \* history: session id -> the identity whose call created it
    call,       \* the last call made on the session store and what it answered
    mu,         \* SessionService.mu: the goroutine holding it for writing, those for reading
    sp,         \* per goroutine: position and locals of its call on the session store
    redis,      \* the rate-limit keys of the Redis store: key -> [val, exp]
    rl,         \* per request goroutine: position and locals of the rate-limit calls
    resp,       \* per request goroutine: what the last call answered
    win,        \* history: (identity, endpoint) -> [start, n] of its current window
    cleared,    \* history: identities cleared and not seen by an admission check since
    JWKSet,     \* ClerkAuth.JWKSet: key id -> key
    LastUpdate, \* ClerkAuth.LastUpdate
    jwksCache,  \* the Redis entry "clerk-jwks"
    origin,     \* the key set the identity provider publishes
    auth,       \* what the access gate answered to the last request
    vt,         \* per request goroutine: position and locals of its VerifyToken call
    req,        \* the request passing through the middleware chain and its position
    rank,       \* the ranking pass of QueryData: its input, position and locals
    AdminKey,   \* Handlers.AdminKey, from ADMIN_API_KEY
    hq,         \* per request goroutine: position and locals of its QueryData or
                \* ResetSession handler
    adminReq,   \* the last request to /admin/clear-cache and what it was answered
    admitted    \* history: the admission checks made, the counts they were returned,
                \* and how many were answered with c.Next()

vars == <<now, sessions, appended, lastSid, owner, call, mu, sp, redis, rl, resp, win, cleared,
          JWKSet, LastUpdate, jwksCache, origin, auth, vt,
          req, rank, AdminKey, hq, adminReq, admitted>>

sessionVars == <<sessions, appended, lastSid, owner, call, mu, sp>>
rateVars == <<redis, rl, resp, win, cleared>>
authVars == <<JWKSet, LastUpdate, jwksCache, origin, auth, vt>>
moreVars == <<req, rank, AdminKey, hq, adminReq, admitted>>

-----------------------------------------------------------------------------
(* Bounds of the model *)

TickMinutes == 15
MaxElapsed == 60
LateStart == 1410
MaxCount == 32
IsoMaxCount == 2
MaxAppends == 11
OwnMaxAppends == 2
PipeMaxAppends == 2
MaxMatches == 11
FillerKeys == 6
HandlerMaxAppends == 3
RerunMatches == 4

(* Constants of the program *)

MaxMessages == 10
Limit == 30
ReportedLimit == 10
WindowMinutes == 30
StaleMinutes == 30
JWKSTTLMinutes == 30
DayMinutes == 1440
NoExp == -1
KeyLen == 50
TopMatches == 10
MaxResults == 5

-----------------------------------------------------------------------------
(* Inputs *)

UserA == <<"a">>
UserAB == <<"a", ":", "b">>
UserStar == <<"*">>
UserB == <<"b">>

Procs == {"p1", "p2"}
Roles == {"user", "assistant"}
Contents == {"m"}
Uuids == {"r1", "r2"}
SessionIdInputs == {<<>>, <<"s1">>}
QueryPath == <<"/api/", "query">>
SavePath == <<"/api/", "save">>

\* utils.Min
Min(a, b) == IF a < b THEN a ELSE b

-----------------------------------------------------------------------------
(* time *)

\* time.Now().Format("2006-01-02")
DateStr(t) ==
    IF t \div DayMinutes = 0 THEN "2025-01-01"
    ELSE IF t \div DayMinutes = 1 THEN "2025-01-02"
    ELSE "2025-01-03"

TickEnabled ==
    \/ now < MaxElapsed
    \/ now >= LateStart /\ now < LateStart + MaxElapsed

\* Redis drops a key once its time-to-live has run out.
Expired(store, t) ==
    [k \in {x \in DOMAIN store : store[x].exp = NoExp \/ store[x].exp > t} |-> store[k]]

-----------------------------------------------------------------------------
(* Session store *)

RECURSIVE SumLen(_, _)
SumLen(f, S) ==
    IF S = {} THEN 0
    ELSE LET s == CHOOSE x \in S : TRUE IN Len(f[s]) + SumLen(f, S \ {s})

TotalAppends == SumLen(appended, DOMAIN appended)

TrimHistory_keepOldest(msgs) ==
    IF Len(msgs) > MaxMessages THEN SubSeq(msgs, 1, MaxMessages) ELSE msgs

\* session.Messages[len(session.Messages)-10:] when longer than 10
TrimHistory(msgs) ==
    IF Len(msgs) > MaxMessages
    THEN SubSeq(msgs, Len(msgs) - MaxMessages + 1, Len(msgs))
    ELSE msgs

NewSessionId_bare(userId, uuid) == <<uuid>>

\* fmt.Sprintf("%s-%s", userId, uuid.New().String())
NewSessionId(userId, uuid) == userId \o <<"-">> \o <<uuid>>

\* uuid.New(): a value it has not returned before; every id made from one is
\* stored at once and sessions are never removed
NewUuids(sessionId) ==
    IF sessionId = <<>>
    THEN {u \in Uuids : \A s \in DOMAIN sessions : s[Len(s)] # u}
    ELSE {"unused"}

GetOrCreateSession_reset(sessionId, userId, uuid) ==
    LET sid == IF sessionId = <<>> THEN NewSessionId(userId, uuid) ELSE sessionId
    IN /\ sessions' = [s \in DOMAIN sessions \cup {sid} |->
                         IF s = sid
                         THEN [Messages |-> <<>>, CreatedAt |-> now, UpdatedAt |-> now]
                         ELSE sessions[s]]
       /\ appended' = [s \in DOMAIN appended \cup {sid} |->
                         IF s = sid THEN <<>> ELSE appended[s]]
       /\ lastSid' = sid

GetOrCreateSession(sessionId, userId, uuid) ==
    LET sid == IF sessionId = <<>> THEN NewSessionId(userId, uuid) ELSE sessionId
    IN /\ IF sid \in DOMAIN sessions
          THEN UNCHANGED <<sessions, appended>>
          ELSE /\ sessions' = [s \in DOMAIN sessions \cup {sid} |->
                                 IF s = sid
                                 THEN [Messages |-> <<>>, CreatedAt |-> now, UpdatedAt |-> now]
                                 ELSE sessions[s]]
               /\ appended' = [s \in DOMAIN appended \cup {sid} |->
                                 IF s = sid THEN <<>> ELSE appended[s]]
       /\ lastSid' = sid

AddMessageToSession_autoCreate(sessionId, role, content) ==
    LET msg == [Role |-> role, Content |-> content]
        old == IF sessionId \in DOMAIN sessions THEN sessions[sessionId].Messages ELSE <<>>
    IN /\ TotalAppends < MaxAppends
       /\ sessions' = [s \in DOMAIN sessions \cup {sessionId} |->
                         IF s = sessionId
                         THEN [Messages |-> TrimHistory(Append(old, msg)),
                               CreatedAt |-> now, UpdatedAt |-> now]
                         ELSE sessions[s]]
       /\ appended' = [s \in DOMAIN appended \cup {sessionId} |->
                         IF s = sessionId
                         THEN Append(IF s \in DOMAIN appended THEN appended[s] ELSE <<>>, msg)
                         ELSE appended[s]]
       /\ UNCHANGED lastSid

AddMessageToSession(sessionId, role, content) ==
    /\ TotalAppends < MaxAppends
    /\ IF sessionId \notin DOMAIN sessions
       THEN UNCHANGED <<sessions, appended>>
       ELSE LET msg == [Role |-> role, Content |-> content]
            IN /\ sessions' = [sessions EXCEPT ![sessionId] =
                                 [Messages |-> TrimHistory(Append(@.Messages, msg)),
                                  CreatedAt |-> @.CreatedAt,
                                  UpdatedAt |-> now]]
               /\ appended' = [appended EXCEPT ![sessionId] = Append(@, msg)]
    /\ UNCHANGED lastSid

\* strings.HasPrefix
HasPrefix(s, prefix) == Len(prefix) <= Len(s) /\ SubSeq(s, 1, Len(prefix)) = prefix

\* Handlers.GetSession for the authenticated identity
GetSession(sessionId, authenticatedUserId) ==
    IF ~HasPrefix(sessionId, authenticatedUserId \o <<"-">>)
    THEN [status |-> "403", messages |-> <<>>]
    ELSE IF sessionId \notin DOMAIN sessions
    THEN [status |-> "404", messages |-> <<>>]
    ELSE [status |-> "200", messages |-> sessions[sessionId].Messages]

NoCall == [op |-> "none", user |-> <<>>, arg |-> <<>>, sid |-> <<>>, existed |-> FALSE,
           before |-> << >>, status |-> "-", messages |-> <<>>]

\* the session store called from several goroutines: each call takes mu, and
\* AddMessageToSession works on a copy of the map entry that it writes back
NoSession == [Messages |-> <<>>, CreatedAt |-> 0, UpdatedAt |-> 0]
NoGot == [found |-> FALSE, sid |-> <<>>, msgs |-> <<>>, seen |-> 0]
IdleSP == [pc |-> "idle", sid |-> <<>>, role |-> "-", local |-> NoSession, got |-> NoGot]

CanLock_unguarded == TRUE

\* s.mu.Lock() returns once no goroutine holds mu
CanLock == mu.writer = "none" /\ mu.readers = {}

\* s.mu.RLock() returns once no goroutine holds mu for writing
CanRLock == mu.writer = "none"

\* AddMessageToSession: s.mu.Lock()
AddLock(p, sessionId, role) ==
    /\ sp[p].pc = "idle"
    /\ TotalAppends < MaxAppends
    /\ CanLock
    /\ mu' = [mu EXCEPT !.writer = p]
    /\ sp' = [sp EXCEPT ![p] = [IdleSP EXCEPT !.pc = "locked", !.sid = sessionId, !.role = role]]
    /\ UNCHANGED <<sessions, appended, lastSid>>

\* session, exists := s.sessions[sessionId]; return (and unlock) when it is missing
AddLoad(p) ==
    LET r == sp[p]
    IN /\ r.pc = "locked"
       /\ IF r.sid \in DOMAIN sessions
          THEN /\ sp' = [sp EXCEPT ![p] = [r EXCEPT !.pc = "loaded", !.local = sessions[r.sid]]]
               /\ UNCHANGED mu
          ELSE /\ sp' = [sp EXCEPT ![p] = IdleSP]
               /\ mu' = [mu EXCEPT !.writer = "none"]
       /\ UNCHANGED <<sessions, appended, lastSid>>

\* the append and the trim on the copy, s.sessions[sessionId] = session, unlock
AddStore(p, content) ==
    LET r == sp[p]
        msg == [Role |-> r.role, Content |-> content]
    IN /\ r.pc = "loaded"
       /\ sessions' = [s \in DOMAIN sessions \cup {r.sid} |->
                         IF s = r.sid
                         THEN [Messages |-> TrimHistory(Append(r.local.Messages, msg)),
                               CreatedAt |-> r.local.CreatedAt,
                               UpdatedAt |-> now]
                         ELSE sessions[s]]
       /\ appended' = [appended EXCEPT ![r.sid] = Append(@, msg)]
       /\ sp' = [sp EXCEPT ![p] = IdleSP]
       /\ mu' = [mu EXCEPT !.writer = "none"]
       /\ UNCHANGED lastSid

\* GetOrCreateSession: s.mu.Lock()
CreateLock(p, sessionId) ==
    /\ sp[p].pc = "idle"
    /\ CanLock
    /\ mu' = [mu EXCEPT !.writer = p]
    /\ sp' = [sp EXCEPT ![p] = [IdleSP EXCEPT !.pc = "creating", !.sid = sessionId]]
    /\ UNCHANGED <<sessions, appended, lastSid>>

\* GetOrCreateSession: the lookup and the insert, unlock
CreateBody(p, userId) ==
    /\ sp[p].pc = "creating"
    /\ \E uuid \in NewUuids(sp[p].sid) : GetOrCreateSession(sp[p].sid, userId, uuid)
    /\ sp' = [sp EXCEPT ![p] = IdleSP]
    /\ mu' = [mu EXCEPT !.writer = "none"]

\* SessionService.GetSession: s.mu.RLock()
ReadLock(p, sessionId) ==
    /\ sp[p].pc = "idle"
    /\ CanRLock
    /\ mu' = [mu EXCEPT !.readers = @ \cup {p}]
    /\ sp' = [sp EXCEPT ![p] = [IdleSP EXCEPT !.pc = "rlocked", !.sid = sessionId]]
    /\ UNCHANGED <<sessions, appended, lastSid>>

\* session, exists := s.sessions[sessionId]; return session, exists (and unlock)
ReadLoad(p) ==
    LET r == sp[p]
        found == r.sid \in DOMAIN sessions
    IN /\ r.pc = "rlocked"
       /\ sp' = [sp EXCEPT ![p] =
                   [IdleSP EXCEPT !.got = [found |-> found, sid |-> r.sid,
                                           msgs |-> IF found THEN sessions[r.sid].Messages ELSE <<>>,
                                           seen |-> IF found THEN Len(appended[r.sid]) ELSE 0]]]
       /\ mu' = [mu EXCEPT !.readers = @ \ {p}]
       /\ UNCHANGED <<sessions, appended, lastSid>>

-----------------------------------------------------------------------------
(* Rate limiter *)

\* strings.TrimPrefix(path, "/api/"), then the part before the first "/" found at idx > 0
RECURSIVE IndexOf(_, _, _)
IndexOf(s, c, i) ==
    IF i > Len(s) THEN -1
    ELSE IF s[i] = c THEN i - 1
    ELSE IndexOf(s, c, i + 1)

EndpointOf_whole(path) ==
    IF Len(path) > 0 /\ Head(path) = "/api/" THEN Tail(path) ELSE path

EndpointOf(path) ==
    LET endpoint == IF Len(path) > 0 /\ Head(path) = "/api/" THEN Tail(path) ELSE path
        idx == IndexOf(endpoint, "/", 1)
    IN IF idx > 0 THEN SubSeq(endpoint, 1, idx) ELSE endpoint

RateKey_noDate(userId, endpoint, t) ==
    <<"rate-limit:">> \o userId \o <<":">> \o endpoint

\* fmt.Sprintf("rate-limit:%s:%s:%s", userId, endpoint, date)
RateKey(userId, endpoint, t) ==
    <<"rate-limit:">> \o userId \o <<":">> \o endpoint \o <<":">> \o <<DateStr(t)>>

\* fmt.Sprintf("rate-limit:%s:*", userId)
RatePattern(userId) == <<"rate-limit:">> \o userId \o <<":", "*">>

\* Redis KEYS glob matching: "*" matches any run of characters, every other
\* token of these patterns matches itself.
RECURSIVE GlobMatch(_, _)
GlobMatch(pat, s) ==
    IF pat = <<>> THEN s = <<>>
    ELSE IF Head(pat) = "*"
         THEN GlobMatch(Tail(pat), s) \/ (s # <<>> /\ GlobMatch(pat, Tail(s)))
         ELSE s # <<>> /\ Head(pat) = Head(s) /\ GlobMatch(Tail(pat), Tail(s))

Incr_touch(store, key) ==
    [k \in DOMAIN store \cup {key} |->
        IF k # key THEN store[k]
        ELSE IF k \in DOMAIN store
        THEN [val |-> store[k].val + 1,
              exp |-> IF store[k].exp = NoExp THEN NoExp ELSE now + WindowMinutes]
        ELSE [val |-> 1, exp |-> NoExp]]

Incr_lost(store, key) ==
    [k \in DOMAIN store \cup {key} |->
        IF k \in DOMAIN store THEN store[k] ELSE [val |-> 1, exp |-> NoExp]]

\* Redis INCR: a missing key is created at 1 with no time-to-live
Incr(store, key) ==
    [k \in DOMAIN store \cup {key} |->
        IF k # key THEN store[k]
        ELSE IF key \in DOMAIN store THEN [val |-> store[key].val + 1, exp |-> store[key].exp]
        ELSE [val |-> 1, exp |-> NoExp]]

Expire_never(store, key, ttl) == store

\* Redis EXPIRE: sets the time-to-live of an existing key
Expire(store, key, ttl) ==
    [k \in DOMAIN store |-> IF k = key THEN [val |-> store[k].val, exp |-> now + ttl] ELSE store[k]]

\* Redis DEL
Del(store, keys) == [k \in DOMAIN store \ keys |-> store[k]]

Exceeded_atLimit(count) == count >= Limit

\* return count > 30, nil
Exceeded(count) == count > Limit

IdleRL == [pc |-> "idle", user |-> <<>>, path |-> <<>>, ep |-> <<>>, cnt |-> 0,
           fresh |-> FALSE, keys |-> {}, own |-> 0]
NoResp == [status |-> "none", limit |-> 0, count |-> 0, cause |-> 0,
           err |-> FALSE, own |-> 0, left |-> 0]

NoneAdmitted == [checks |-> 0, seen |-> {}, n |-> 0]
\* history after a step of the check of p: the count INCR returned to it, and
\* whether the middleware went on to c.Next()
Observed(h, before, after) ==
    [checks |-> h.checks + (IF before.pc = "idle" THEN 1 ELSE 0),
     seen |-> h.seen \cup (IF before.pc = "idle" THEN {after.cnt} ELSE {}),
     n |-> h.n]
Answered(h, response) ==
    [h EXCEPT !.n = @ + (IF response.status = "next" THEN 1 ELSE 0)]

AllIdle == \A p \in Procs : rl[p].pc = "idle"

\* history: how many admission checks the identity has made on the endpoint in
\* its current window (same calendar day, less than the window after the first)
InWindow(u, ep) ==
    /\ <<u, ep>> \in DOMAIN win
    /\ DateStr(win[<<u, ep>>].start) = DateStr(now)
    /\ now < win[<<u, ep>>].start + WindowMinutes
WinAfter(u, ep) ==
    [k \in DOMAIN win \cup {<<u, ep>>} |->
        IF k # <<u, ep>> THEN win[k]
        ELSE IF InWindow(u, ep) THEN [start |-> win[k].start, n |-> win[k].n + 1]
        ELSE [start |-> now, n |-> 1]]

NextOnError_abort(r, error) ==
    [NoResp EXCEPT !.status = IF error THEN "500" ELSE "next",
                   !.cause = r.cnt, !.err = error]

\* c.Next(): the request goes on to the handler
NextOnError(r, error) ==
    [NoResp EXCEPT !.status = "next", !.cause = r.cnt, !.err = error]

\* RateLimitMiddleware after CheckRateLimit returned (exceeded, nil)
AfterCheck(p, r) ==
    IF Exceeded(r.cnt)
    THEN /\ rl' = [rl EXCEPT ![p] = [r EXCEPT !.pc = "getcount"]]
         /\ resp' = [resp EXCEPT ![p] = NoResp]
    ELSE /\ rl' = [rl EXCEPT ![p] = [r EXCEPT !.pc = "idle"]]
         /\ resp' = [resp EXCEPT ![p] = NextOnError(r, FALSE)]

\* CheckRateLimit, first command: INCR
RLIncr(p, u, path, ok, cap) ==
    LET ep == EndpointOf(path)
        key == RateKey(u, ep, now)
        cnt == IF key \in DOMAIN redis THEN redis[key].val + 1 ELSE 1
        r == [IdleRL EXCEPT !.user = u, !.path = path, !.ep = ep,
                            !.cnt = IF ok THEN cnt ELSE 0,
                            !.fresh = ok /\ u \in cleared]
    IN /\ rl[p].pc = "idle"
       /\ cnt <= cap
       /\ IF ~ok
          THEN /\ rl' = [rl EXCEPT ![p] = r]
               /\ resp' = [resp EXCEPT ![p] = NextOnError(r, TRUE)]
               /\ UNCHANGED <<redis, cleared>>
          ELSE /\ redis' = Incr(redis, key)
               /\ cleared' = cleared \ {u}
               /\ IF cnt = 1
                  THEN /\ rl' = [rl EXCEPT ![p] = [r EXCEPT !.pc = "expire"]]
                       /\ resp' = [resp EXCEPT ![p] = NoResp]
                  ELSE AfterCheck(p, r)

\* CheckRateLimit, second command when count == 1: EXPIRE key 30m
RLExpire(p, ok) ==
    LET r == rl[p]
        key == RateKey(r.user, r.ep, now)
    IN /\ r.pc = "expire"
       /\ UNCHANGED cleared
       /\ IF ~ok
          THEN /\ rl' = [rl EXCEPT ![p] = [r EXCEPT !.pc = "idle"]]
               /\ resp' = [resp EXCEPT ![p] = NextOnError(r, TRUE)]
               /\ UNCHANGED redis
          ELSE /\ redis' = Expire(redis, key, WindowMinutes)
               /\ AfterCheck(p, r)

\* the 429 branch: GetRateLimitCount (its error is dropped), then the rejection
RLGetCount(p, ok) ==
    LET r == rl[p]
        key == RateKey(r.user, r.ep, now)
        count == IF ok /\ key \in DOMAIN redis THEN redis[key].val ELSE 0
    IN /\ r.pc = "getcount"
       /\ rl' = [rl EXCEPT ![p] = [r EXCEPT !.pc = "idle"]]
       /\ resp' = [resp EXCEPT ![p] =
                     [NoResp EXCEPT !.status = "429", !.limit = ReportedLimit,
                                    !.count = count, !.cause = r.cnt]]
       /\ UNCHANGED <<redis, cleared>>

\* the rate-limit keys an identity's admission checks use
KeysOf(u, paths) == {RateKey(u, EndpointOf(path), 0) : path \in paths}
                        \cup {RateKey(u, EndpointOf(path), DayMinutes) : path \in paths}
                        \cup {RateKey(u, EndpointOf(path), 2 * DayMinutes) : path \in paths}

AllPaths == {QueryPath, SavePath}

\* ClearRateLimits, first command: KEYS rate-limit:<userId>:*
ClearKeys(p, u, ok) ==
    LET pattern == RatePattern(u)
        keys == {k \in DOMAIN redis : GlobMatch(pattern, k)}
        r == [IdleRL EXCEPT !.user = u, !.keys = keys,
                            !.own = Cardinality(DOMAIN redis \cap KeysOf(u, AllPaths))]
    IN /\ rl[p].pc = "idle"
       /\ UNCHANGED redis
       /\ IF ~ok
          THEN /\ rl' = [rl EXCEPT ![p] = [r EXCEPT !.keys = {}]]
               /\ resp' = [resp EXCEPT ![p] = [NoResp EXCEPT !.status = "clear_err", !.err = TRUE]]
               /\ UNCHANGED cleared
          ELSE IF keys = {}
          THEN /\ rl' = [rl EXCEPT ![p] = r]
               /\ resp' = [resp EXCEPT ![p] = [NoResp EXCEPT !.status = "cleared", !.own = r.own]]
               /\ cleared' = cleared \cup {u}
          ELSE /\ rl' = [rl EXCEPT ![p] = [r EXCEPT !.pc = "del"]]
               /\ resp' = [resp EXCEPT ![p] = NoResp]
               /\ UNCHANGED cleared

\* ClearRateLimits, second command: DEL keys...
ClearDel(p, ok) ==
    LET r == rl[p]
        gone == r.keys \cap DOMAIN redis
    IN /\ r.pc = "del"
       /\ rl' = [rl EXCEPT ![p] = [r EXCEPT !.pc = "idle"]]
       /\ IF ~ok
          THEN /\ resp' = [resp EXCEPT ![p] = [NoResp EXCEPT !.status = "clear_err", !.err = TRUE]]
               /\ UNCHANGED <<redis, cleared>>
          ELSE /\ redis' = Del(redis, r.keys)
               /\ cleared' = cleared \cup {r.user}
               /\ resp' = [resp EXCEPT ![p] =
                             [NoResp EXCEPT !.status = "cleared", !.count = Cardinality(gone),
                                            !.own = r.own,
                                            !.left = Cardinality((DOMAIN redis \ r.keys)
                                                        \cap KeysOf(r.user, AllPaths))]]

NoCache == [present |-> FALSE, data |-> << >>, exp |-> NoExp]

\* time passes; Redis drops the keys whose time-to-live ran out
Tick ==
    /\ TickEnabled
    /\ now' = now + TickMinutes
    /\ redis' = Expired(redis, now + TickMinutes)
    /\ jwksCache' = IF jwksCache.present /\ jwksCache.exp <= now + TickMinutes
                    THEN NoCache ELSE jwksCache
    /\ UNCHANGED <<sessionVars, rl, resp, win, cleared, JWKSet, LastUpdate, origin, auth, vt>>
    /\ UNCHANGED moreVars

-----------------------------------------------------------------------------
(* Key cache and token verifier *)

IssuerURL == "https://clerk.example"

RSAKey1 == [kty |-> "RSA", id |-> "K1"]
RSAKey2 == [kty |-> "RSA", id |-> "K2"]
ECKey == [kty |-> "EC", id |-> "E1"]
NoKey == [kty |-> "none", id |-> "none"]

\* the provider's key set before and after a rotation of its RSA key
KeySet1 == ("k1" :> RSAKey1) @@ ("e1" :> ECKey)
KeySet2 == ("k2" :> RSAKey2) @@ ("e1" :> ECKey)

RefreshJWKs_dropOnFail(cacheOk, fetchOk, storeOk) ==
    IF cacheOk /\ jwksCache.present
    THEN [set |-> jwksCache.data, last |-> now, cache |-> jwksCache, err |-> FALSE,
          fetched |-> FALSE, stored |-> FALSE]
    ELSE IF ~fetchOk
    THEN [set |-> << >>, last |-> LastUpdate, cache |-> jwksCache, err |-> TRUE,
          fetched |-> TRUE, stored |-> FALSE]
    ELSE [set |-> origin, last |-> now,
          cache |-> IF storeOk
                    THEN [present |-> TRUE, data |-> origin, exp |-> now + JWKSTTLMinutes]
                    ELSE jwksCache,
          err |-> FALSE, fetched |-> TRUE, stored |-> TRUE]

RefreshJWKs_noWriteBack(cacheOk, fetchOk, storeOk) ==
    IF cacheOk /\ jwksCache.present
    THEN [set |-> jwksCache.data, last |-> now, cache |-> jwksCache, err |-> FALSE,
          fetched |-> FALSE, stored |-> FALSE]
    ELSE IF ~fetchOk
    THEN [set |-> JWKSet, last |-> LastUpdate, cache |-> jwksCache, err |-> TRUE,
          fetched |-> TRUE, stored |-> FALSE]
    ELSE [set |-> origin, last |-> now, cache |-> jwksCache,
          err |-> FALSE, fetched |-> TRUE, stored |-> FALSE]

RefreshJWKs_keepStamp(cacheOk, fetchOk, storeOk) ==
    IF cacheOk /\ jwksCache.present
    THEN [set |-> jwksCache.data, last |-> LastUpdate, cache |-> jwksCache, err |-> FALSE,
          fetched |-> FALSE, stored |-> FALSE]
    ELSE IF ~fetchOk
    THEN [set |-> JWKSet, last |-> LastUpdate, cache |-> jwksCache, err |-> TRUE,
          fetched |-> TRUE, stored |-> FALSE]
    ELSE [set |-> origin, last |-> LastUpdate,
          cache |-> IF storeOk
                    THEN [present |-> TRUE, data |-> origin, exp |-> now + JWKSTTLMinutes]
                    ELSE jwksCache,
          err |-> FALSE, fetched |-> TRUE, stored |-> TRUE]

\* RefreshJWKs: the Redis copy when it is there and parses, else the provider's
\* key set, which is then stored in Redis for 30 minutes
RefreshJWKs(cacheOk, fetchOk, storeOk) ==
    IF cacheOk /\ jwksCache.present
    THEN [set |-> jwksCache.data, last |-> now, cache |-> jwksCache, err |-> FALSE,
          fetched |-> FALSE, stored |-> FALSE]
    ELSE IF ~fetchOk
    THEN [set |-> JWKSet, last |-> LastUpdate, cache |-> jwksCache, err |-> TRUE,
          fetched |-> TRUE, stored |-> FALSE]
    ELSE [set |-> origin, last |-> now,
          cache |-> IF storeOk
                    THEN [present |-> TRUE, data |-> origin, exp |-> now + JWKSTTLMinutes]
                    ELSE jwksCache,
          err |-> FALSE, fetched |-> TRUE, stored |-> TRUE]

Stale_atInterval == now - LastUpdate >= StaleMinutes

\* time.Since(c.LastUpdate) > 30*time.Minute
Stale == now - LastUpdate > StaleMinutes

\* token.Method.(*jwt.SigningMethodRSA)
IsRSAMethod(alg) == alg = "RS256"

\* the key function given to jwt.Parse
Keyfunc(token, keys) ==
    IF ~IsRSAMethod(token.alg) THEN [err |-> "unexpected signing method", key |-> NoKey]
    ELSE IF token.kid = "-" THEN [err |-> "kid header not found", key |-> NoKey]
    ELSE IF token.kid \in DOMAIN keys THEN [err |-> "", key |-> keys[token.kid]]
    ELSE [err |-> "key not found", key |-> NoKey]

\* token.Method.Verify: an RSA or ECDSA method wants a public key of its own kind
\* and a signature made with that key's private half; HMAC wants a byte string
\* and "none" its own marker, which a key of the key set never is
SignatureValid(token, key) ==
    IF token.alg = "RS256" THEN key.kty = "RSA" /\ token.signer = key.id
    ELSE IF token.alg = "ES256" THEN key.kty = "EC" /\ token.signer = key.id
    ELSE FALSE

ClaimsErrors_noExpiry(token) ==
    IF token.nbf = "future" THEN {"token is not valid yet"} ELSE {}

\* jwt's validator on the registered claims: exp when present, nbf when present
ClaimsErrors(token) ==
    (IF token.exp.kind = "string" THEN {"exp is invalid"}
     ELSE IF token.exp.kind = "num" /\ ~(now < token.exp.t) THEN {"token is expired"}
     ELSE {})
    \cup (IF token.nbf = "future" THEN {"token is not valid yet"} ELSE {})

\* jwt.Parse: key function, signature, then the claims
Parse(token, keys) ==
    LET kf == Keyfunc(token, keys)
    IN IF kf.err # "" THEN {kf.err}
       ELSE IF ~SignatureValid(token, kf.key) THEN {"signature is invalid"}
       ELSE ClaimsErrors(token)

IssuerOk_present(token) == token.iss # "-"

\* issuer, ok := claims["iss"].(string); !ok || issuer != c.IssuerURL
IssuerOk(token) == token.iss # "-" /\ token.iss = IssuerURL

ExpiryOk_reversed(token) == token.exp.kind = "num" /\ ~(now < token.exp.t)

\* exp, ok := claims["exp"].(float64); !ok || time.Now().Unix() > int64(exp)
ExpiryOk(token) == token.exp.kind = "num" /\ ~(now > token.exp.t)

\* VerifyToken after the refresh: the reasons of the failure, none on success
Verify(token, keys) ==
    LET perr == Parse(token, keys)
    IN IF perr # {} THEN perr
       ELSE IF ~IssuerOk(token) THEN {"invalid issuer"}
       ELSE IF ~ExpiryOk(token) THEN {"token expired"}
       ELSE {}

\* claims["sub"] absent or not a string
NoSub == <<"(no sub)">>

NoToken == [alg |-> "-", kid |-> "-", signer |-> "-", iss |-> "-",
            exp |-> [kind |-> "missing", t |-> 0], nbf |-> "none", sub |-> NoSub]
NoAuth == [hdr |-> "-", token |-> NoToken, status |-> "none", reasons |-> {},
           userId |-> <<>>, refreshes |-> 0, keys |-> << >>, known |-> FALSE,
           last |-> 0, at |-> 0, failed |-> FALSE,
           cacheOk |-> TRUE, fetched |-> FALSE, stored |-> FALSE, storeOk |-> TRUE]

\* AuthMiddleware on a request with the given Authorization header
AuthMiddleware(hdr, token, cacheOk, fetchOk, storeOk) ==
    IF hdr = "none"
    THEN /\ auth' = [NoAuth EXCEPT !.hdr = hdr, !.status = "401",
                                   !.reasons = {"Authorization header is required"}, !.at = now]
         /\ UNCHANGED <<JWKSet, LastUpdate, jwksCache>>
    ELSE IF hdr # "Bearer"
    THEN /\ auth' = [NoAuth EXCEPT !.hdr = hdr, !.status = "401",
                                   !.reasons = {"Authorization header must be Bearer token"},
                                   !.at = now]
         /\ UNCHANGED <<JWKSet, LastUpdate, jwksCache>>
    ELSE LET r == IF Stale THEN RefreshJWKs(cacheOk, fetchOk, storeOk)
                  ELSE [set |-> JWKSet, last |-> LastUpdate, cache |-> jwksCache, err |-> FALSE,
                        fetched |-> FALSE, stored |-> FALSE]
             reasons == Verify(token, r.set)
             a == [NoAuth EXCEPT !.hdr = hdr, !.token = token, !.at = now,
                                 !.refreshes = IF Stale THEN 1 ELSE 0,
                                 !.keys = r.set,
                                 !.known = token.kid \in DOMAIN JWKSet,
                                 !.last = LastUpdate,
                                 !.failed = r.err,
                                 !.cacheOk = cacheOk, !.fetched = r.fetched,
                                 !.stored = r.stored, !.storeOk = storeOk]
         IN /\ JWKSet' = r.set
            /\ LastUpdate' = r.last
            /\ jwksCache' = r.cache
            /\ auth' = IF reasons # {}
                       THEN [a EXCEPT !.status = "401", !.reasons = reasons]
                       ELSE IF token.sub = NoSub
                       THEN [a EXCEPT !.status = "401", !.reasons = {"User ID not found in token"}]
                       ELSE [a EXCEPT !.status = "ok", !.userId = token.sub]

\* VerifyToken called from several request goroutines: ClerkAuth has no lock,
\* and RefreshJWKs assigns c.JWKSet and c.LastUpdate in two statements
NoRefresh == [set |-> << >>, last |-> 0, cache |-> NoCache, err |-> FALSE,
              fetched |-> FALSE, stored |-> FALSE]
IdleVT == [pc |-> "idle", token |-> NoToken, stale |-> FALSE, stamp |-> 0,
           new |-> NoRefresh, prev |-> << >>, keys |-> << >>, reasons |-> {}]

\* if time.Since(c.LastUpdate) > 30*time.Minute
VTStart(p, token) ==
    /\ vt[p].pc = "idle"
    /\ vt' = [vt EXCEPT ![p] = [IdleVT EXCEPT !.pc = IF Stale THEN "refresh" ELSE "parse",
                                              !.token = token, !.stale = Stale,
                                              !.stamp = LastUpdate]]
    /\ UNCHANGED <<JWKSet, LastUpdate, jwksCache>>

\* RefreshJWKs up to the key set it obtained, or its error
VTRefresh(p, cacheOk, fetchOk, storeOk) ==
    LET r == RefreshJWKs(cacheOk, fetchOk, storeOk)
    IN /\ vt[p].pc = "refresh"
       /\ vt' = [vt EXCEPT ![p] = [@ EXCEPT !.pc = IF r.err THEN "parse" ELSE "writeset",
                                            !.new = r]]
       /\ UNCHANGED <<JWKSet, LastUpdate, jwksCache>>

\* c.JWKSet = set
VTWriteSet(p) ==
    /\ vt[p].pc = "writeset"
    /\ JWKSet' = vt[p].new.set
    /\ vt' = [vt EXCEPT ![p] = [@ EXCEPT !.pc = "writestamp", !.prev = JWKSet]]
    /\ UNCHANGED <<LastUpdate, jwksCache>>

\* c.LastUpdate = time.Now(), then StoreJWKs when the set came from the provider
VTWriteStamp(p) ==
    /\ vt[p].pc = "writestamp"
    /\ LastUpdate' = now
    /\ jwksCache' = IF vt[p].new.cache = jwksCache \/ vt[p].new.cache.data # vt[p].new.set
                    THEN jwksCache ELSE vt[p].new.cache
    /\ vt' = [vt EXCEPT ![p] = [@ EXCEPT !.pc = "parse"]]
    /\ UNCHANGED JWKSet

\* jwt.Parse with the key function reading c.JWKSet, then the claims checks
VTParse(p) ==
    /\ vt[p].pc = "parse"
    /\ vt' = [vt EXCEPT ![p] = [@ EXCEPT !.pc = "idle", !.keys = JWKSet,
                                        !.reasons = Verify(vt[p].token, JWKSet)]]
    /\ UNCHANGED <<JWKSet, LastUpdate, jwksCache>>

\* the identity provider rotates its RSA key
RotateKeys ==
    /\ origin = KeySet1
    /\ origin' = KeySet2
    /\ UNCHANGED <<JWKSet, LastUpdate, jwksCache, auth>>

\* another instance of the service refreshes and stores the key set in Redis
PeerStore ==
    /\ jwksCache' = [present |-> TRUE, data |-> origin, exp |-> now + JWKSTTLMinutes]
    /\ UNCHANGED <<JWKSet, LastUpdate, origin, auth>>

\* the tokens presented: a well-formed token for each published key, the same
\* with a defect in its header or signature, with a defect in its claims, and
\* expired with a defect in its header or signature
GoodToken(kid, key) ==
    [alg |-> "RS256", kid |-> kid, signer |-> key.id, iss |-> IssuerURL,
     exp |-> [kind |-> "num", t |-> now + TickMinutes], nbf |-> "none", sub |-> UserA]

HeaderVariants ==
    LET g == GoodToken("k1", RSAKey1)
    IN {g, GoodToken("k2", RSAKey2),
        [g EXCEPT !.kid = "e1"],
        [GoodToken("e1", ECKey) EXCEPT !.alg = "ES256"],
        [g EXCEPT !.alg = "HS256", !.signer = "secret"],
        [g EXCEPT !.alg = "none", !.signer = "-"],
        [g EXCEPT !.kid = "-"],
        [g EXCEPT !.signer = "forged"]}

Past(g) == [g EXCEPT !.exp = [kind |-> "num", t |-> now - TickMinutes]]

ClaimVariants(g) ==
    {g, Past(g),
     [g EXCEPT !.iss = "https://evil.example"],
     [g EXCEPT !.iss = "-"],
     [g EXCEPT !.exp = [kind |-> "num", t |-> now]],
     [g EXCEPT !.exp = [kind |-> "missing", t |-> 0]],
     [g EXCEPT !.exp = [kind |-> "string", t |-> 0]],
     [g EXCEPT !.nbf = "future"],
     [g EXCEPT !.sub = NoSub],
     Past([g EXCEPT !.iss = "https://evil.example"])}

Tokens ==
    HeaderVariants \cup {Past(h) : h \in HeaderVariants}
        \cup ClaimVariants(GoodToken("k1", RSAKey1)) \cup ClaimVariants(GoodToken("k2", RSAKey2))

-----------------------------------------------------------------------------
(* The middleware chain of a rate-limited route *)

IdleReq == [pc |-> "idle", hdr |-> "-", token |-> NoToken, path |-> <<>>,
            userId |-> <<>>, status |-> "-", called |-> FALSE]

AfterAuth_noAbort(a) == "rate"

\* AuthMiddleware ends with c.Abort() on every 401 and with c.Next() otherwise
AfterAuth(a) == IF a.status = "ok" THEN "rate" ELSE "done"

AfterRate_noAbort(r) == "handler"

\* RateLimitMiddleware ends with c.Abort() on the 429 and with c.Next() otherwise
AfterRate(r) == IF r.status = "429" THEN "done" ELSE "handler"

-----------------------------------------------------------------------------
(* The query and reset-session handlers *)

IdleHQ == [pc |-> "idle", op |-> "-", auth |-> <<>>, user |-> <<>>, arg |-> <<>>,
           text |-> "", sid |-> <<>>, status |-> "-", fed |-> <<>>]

UserIdMatches_any(reqUserId, authenticatedUserId) == TRUE

\* if req.UserId != authenticatedUserId.(string) { 403 }
UserIdMatches(reqUserId, authenticatedUserId) == reqUserId = authenticatedUserId

\* models.ToOpenAIChatMessages(session.Messages), of GetSessionMessages
ToOpenAIChatMessages(messages) ==
    [i \in 1..Len(messages) |-> [Role |-> messages[i].Role, Content |-> messages[i].Content]]
GetSessionMessages(sessionId) ==
    IF sessionId \in DOMAIN sessions
    THEN ToOpenAIChatMessages(sessions[sessionId].Messages) ELSE <<>>

\* len(s.sessions)
GetSessionCount == Cardinality(DOMAIN sessions)

\* QueryData up to GetOrCreateSession: text and userId are required by the
\* binding
QueryStart(p, authenticatedUserId, userId, sessionId, text, uuid) ==
    LET h == [IdleHQ EXCEPT !.op = "query", !.auth = authenticatedUserId, !.user = userId,
                            !.arg = sessionId, !.text = text]
    IN /\ hq[p].pc \in {"idle", "done"}
       /\ IF text = "" \/ userId = <<>>
          THEN /\ hq' = [hq EXCEPT ![p] = [h EXCEPT !.pc = "done", !.status = "400"]]
               /\ UNCHANGED <<sessions, appended, lastSid>>
          ELSE IF ~UserIdMatches(userId, authenticatedUserId)
          THEN /\ hq' = [hq EXCEPT ![p] = [h EXCEPT !.pc = "done", !.status = "403"]]
               /\ UNCHANGED <<sessions, appended, lastSid>>
          ELSE /\ GetOrCreateSession(sessionId, authenticatedUserId, uuid)
               /\ hq' = [hq EXCEPT ![p] = [h EXCEPT !.pc = "search", !.sid = lastSid']]

\* GetEmbedding and QueryVectors, either of which may fail, and the ranking
QuerySearch(p, ok) ==
    /\ hq[p].pc = "search"
    /\ hq' = [hq EXCEPT ![p] = IF ok THEN [@ EXCEPT !.pc = "addUser"]
                                ELSE [@ EXCEPT !.pc = "done", !.status = "500"]]
    /\ UNCHANGED <<sessions, appended, lastSid>>

\* AddMessageToSession(sessionId, "user", req.Text)
QueryAddUser(p) ==
    /\ hq[p].pc = "addUser"
    /\ AddMessageToSession(hq[p].sid, "user", hq[p].text)
    /\ hq' = [hq EXCEPT ![p].pc = "complete"]

\* GetSessionMessages and GetChatCompletion, which may fail
QueryComplete(p, ok) ==
    /\ hq[p].pc = "complete"
    /\ hq' = [hq EXCEPT ![p] = IF ok THEN [@ EXCEPT !.pc = "addAssistant",
                                                    !.fed = GetSessionMessages(hq[p].sid)]
                                ELSE [@ EXCEPT !.pc = "done", !.status = "500",
                                               !.fed = GetSessionMessages(hq[p].sid)]]
    /\ UNCHANGED <<sessions, appended, lastSid>>

\* AddMessageToSession(sessionId, "assistant", response) and the 200
QueryAddAssistant(p) ==
    /\ hq[p].pc = "addAssistant"
    /\ AddMessageToSession(hq[p].sid, "assistant", "r")
    /\ hq' = [hq EXCEPT ![p] = [@ EXCEPT !.pc = "done", !.status = "200"]]

ResetSession_dropOld(p, authenticatedUserId, userId, sessionId, uuid) ==
    LET h == [IdleHQ EXCEPT !.op = "reset", !.auth = authenticatedUserId, !.user = userId,
                            !.arg = sessionId]
        sid == NewSessionId(userId, uuid)
    IN /\ hq[p].pc \in {"idle", "done"}
       /\ sessions' = [s \in (DOMAIN sessions \ {sessionId}) \cup {sid} |->
                         IF s = sid
                         THEN [Messages |-> <<>>, CreatedAt |-> now, UpdatedAt |-> now]
                         ELSE sessions[s]]
       /\ appended' = [s \in DOMAIN sessions' |-> IF s = sid THEN <<>> ELSE appended[s]]
       /\ lastSid' = sid
       /\ hq' = [hq EXCEPT ![p] = [h EXCEPT !.pc = "done", !.status = "200", !.sid = sid]]

\* ResetSession: sessionId and userId are required by the binding
ResetSession(p, authenticatedUserId, userId, sessionId, uuid) ==
    LET h == [IdleHQ EXCEPT !.op = "reset", !.auth = authenticatedUserId, !.user = userId,
                            !.arg = sessionId]
    IN /\ hq[p].pc \in {"idle", "done"}
       /\ IF sessionId = <<>> \/ userId = <<>>
          THEN /\ hq' = [hq EXCEPT ![p] = [h EXCEPT !.pc = "done", !.status = "400"]]
               /\ UNCHANGED <<sessions, appended, lastSid>>
          ELSE IF ~UserIdMatches(userId, authenticatedUserId)
          THEN /\ hq' = [hq EXCEPT ![p] = [h EXCEPT !.pc = "done", !.status = "403"]]
               /\ UNCHANGED <<sessions, appended, lastSid>>
          ELSE /\ GetOrCreateSession(<<>>, userId, uuid)
               /\ hq' = [hq EXCEPT ![p] = [h EXCEPT !.pc = "done", !.status = "200",
                                                    !.sid = lastSid']]

-----------------------------------------------------------------------------
(* The admin endpoint and the ranking pass *)

AdminKeys == {"", "secret"}
NoAdminReq == [apiKey |-> "", userId |-> <<>>, status |-> "-", cleared |-> FALSE]

\* the X-Admin-API-Key header as GetHeader returns it: "" when it is absent
ApiKeyInputs == {"", "wrong", "secret"}
\* the userId query parameter as c.Query returns it: "" when it is absent
TargetInputs == {<<>>, UserA, UserB}

\* ClearCache up to the first command of ClearRateLimits
ClearCache(p, apiKey, userId, ok) ==
    IF apiKey # AdminKey
    THEN /\ adminReq' = [NoAdminReq EXCEPT !.apiKey = apiKey, !.userId = userId, !.status = "401"]
         /\ UNCHANGED <<redis, rl, resp, cleared>>
    ELSE IF userId = <<>>
    THEN /\ adminReq' = [NoAdminReq EXCEPT !.apiKey = apiKey, !.userId = userId, !.status = "400"]
         /\ UNCHANGED <<redis, rl, resp, cleared>>
    ELSE /\ adminReq' = [NoAdminReq EXCEPT !.apiKey = apiKey, !.userId = userId,
                                           !.status = "clearing", !.cleared = TRUE]
         /\ ClearKeys(p, userId, ok)

\* texts are sequences of characters, scores are thousandths
Pad(c, n) == [i \in 1..n |-> c]
A50 == Pad("a", 50)
A50x == A50 \o <<"x">>
A50y == A50 \o <<"y">>
A49 == Pad("a", 49)
Xyz == <<"x", "y", "z">>
Filler(i) == <<"t", i % FillerKeys>>

Key_whole(text) == text

\* key := text; if len(key) > 50 { key = key[:50] }
Key(text) == IF Len(text) > KeyLen THEN SubSeq(text, 1, KeyLen) ELSE text

\* res.Matches[:utils.Min(10, len(res.Matches))]
Considered(matches) == SubSeq(matches, 1, Min(TopMatches, Len(matches)))

Dedup_lastWins(uniqueResults, match) ==
    LET key == Key(match.text)
    IN [k \in DOMAIN uniqueResults \cup {key} |->
          IF k = key THEN match.score ELSE uniqueResults[k]]

\* if existingScore, exists := uniqueResults[key]; !exists || match.Score > existingScore
Dedup(uniqueResults, match) ==
    LET key == Key(match.text)
    IN IF key \notin DOMAIN uniqueResults \/ match.score > uniqueResults[key]
       THEN [k \in DOMAIN uniqueResults \cup {key} |->
               IF k = key THEN match.score ELSE uniqueResults[k]]
       ELSE uniqueResults

\* %.2f of a score: hundredths, rounded
Format2(score) == (score + 5) \div 10

\* fullText := text; if len(text) == 50 && len(text) < len(fullText) { fullText = text + "..." }
FullText(text) ==
    LET fullText == text
    IN IF Len(text) = KeyLen /\ Len(text) < Len(fullText) THEN text \o <<"...">> ELSE fullText

\* fmt.Sprintf("Result %d: %s (Relevance: %.2f)\n\n", resultNum, fullText, score)
Block(resultNum, text, score) ==
    <<"Result ", resultNum, ": ", FullText(text), " (Relevance: ", Format2(score), ")\n\n">>

NoResults_empty == <<>>

\* contextText = "No relevant information found in your saved data."
NoResults == << <<"No relevant information found in your saved data.">> >>

IdleRank == [pc |-> "idle", matches |-> <<>>, i |-> 0, uniqueResults |-> << >>,
             emitted |-> {}, contextText |-> <<>>, resultNum |-> 1,
             runs |-> 0, previous |-> <<>>]

\* the ranking pass of one request receives res.Matches
RankStart(matches) ==
    /\ rank.pc = "idle"
    /\ rank' = IF Len(matches) > 0
               THEN [IdleRank EXCEPT !.pc = "dedup", !.matches = matches, !.i = 1, !.runs = 1]
               ELSE [IdleRank EXCEPT !.pc = "done", !.matches = matches,
                                     !.contextText = NoResults, !.runs = 1]

\* the ranking pass of a second request whose search returned the same matches;
\* the context of the first is kept for comparison
RankAgain ==
    /\ rank.pc = "done"
    /\ rank.runs = 1
    /\ rank' = IF Len(rank.matches) > 0
               THEN [IdleRank EXCEPT !.pc = "dedup", !.matches = rank.matches, !.i = 1,
                                     !.runs = 2, !.previous = rank.contextText]
               ELSE [IdleRank EXCEPT !.pc = "done", !.matches = rank.matches,
                                     !.contextText = NoResults,
                                     !.runs = 2, !.previous = rank.contextText]

\* one iteration of the deduplicating loop
RankDedup ==
    /\ rank.pc = "dedup"
    /\ rank' = [rank EXCEPT !.uniqueResults = Dedup(@, rank.matches[rank.i]),
                            !.i = @ + 1,
                            !.pc = IF rank.i = Len(Considered(rank.matches))
                                   THEN "format" ELSE "dedup"]

\* one iteration of the formatting loop: range over a map visits the keys in
\* an unspecified order
RankFormat ==
    /\ rank.pc = "format"
    /\ IF rank.resultNum > MaxResults \/ DOMAIN rank.uniqueResults = rank.emitted
       THEN rank' = [rank EXCEPT !.pc = "done"]
       ELSE \E text \in DOMAIN rank.uniqueResults \ rank.emitted :
               rank' = [rank EXCEPT
                          !.contextText = Append(@, Block(rank.resultNum, text,
                                                          rank.uniqueResults[text])),
                          !.emitted = @ \cup {text},
                          !.resultNum = @ + 1]

\* res.Matches: n matches of a shape (which texts) and a scoring (which scores)
Shapes == {"fill", "dup", "exact", "tail"}
Scorings == {"desc", "flat", "asc"}
TextAt(shape, i) ==
    IF shape = "dup" /\ i = 1 THEN A50x
    ELSE IF shape = "dup" /\ i = 2 THEN A50y
    ELSE IF shape = "dup" /\ i = 3 THEN Xyz
    ELSE IF shape = "exact" /\ i = 1 THEN A50
    ELSE IF shape = "exact" /\ i = 2 THEN A50x
    ELSE IF shape = "exact" /\ i = 3 THEN A49
    ELSE IF shape = "tail" /\ i > TopMatches THEN Xyz
    ELSE IF shape = "tail" THEN Filler(i % 3)
    ELSE Filler(i)
ScoreAt(scoring, i) ==
    IF scoring = "desc" THEN 950 - 7 * i
    ELSE IF scoring = "asc" THEN 500 + 7 * i
    ELSE 500
Matches(n, shape, scoring) ==
    [i \in 1..n |-> [text |-> TextAt(shape, i), score |-> ScoreAt(scoring, i)]]
RankInputs ==
    {Matches(n, shape, scoring) : n \in 0..MaxMatches, shape \in Shapes, scoring \in Scorings}

-----------------------------------------------------------------------------
(* Specifications *)

Init ==
    /\ now \in {0, LateStart}
    /\ sessions = << >>
    /\ appended = << >>
    /\ lastSid = <<>>
    /\ owner = << >>
    /\ call = NoCall
    /\ mu = [writer |-> "none", readers |-> {}]
    /\ sp = [p \in Procs |-> IdleSP]
    /\ redis = << >>
    /\ rl = [p \in Procs |-> IdleRL]
    /\ resp = [p \in Procs |-> NoResp]
    /\ win = << >>
    /\ cleared = {}
    /\ origin = KeySet1
    /\ JWKSet = KeySet1
    /\ LastUpdate = now
    /\ jwksCache = [present |-> TRUE, data |-> KeySet1, exp |-> now + JWKSTTLMinutes]
    /\ auth = NoAuth
    /\ vt = [p \in Procs |-> IdleVT]
    /\ req = IdleReq
    /\ rank = IdleRank
    /\ AdminKey \in AdminKeys
    /\ hq = [p \in Procs |-> IdleHQ]
    /\ adminReq = NoAdminReq
    /\ admitted = NoneAdmitted

\* started at midnight, with an admin secret configured
InitMidnight == Init /\ now = 0 /\ AdminKey = "secret"

\* the session service called by one caller after another
SessionCreate ==
    /\ \E sid \in SessionIdInputs : \E uuid \in NewUuids(sid) : GetOrCreateSession(sid, UserA, uuid)
    /\ UNCHANGED <<now, moreVars, owner, call, mu, sp, rateVars, authVars>>

SessionAppend ==
    /\ \E sid \in {<<"s1">>, NewSessionId(UserA, "r1"), <<"s2">>}, role \in Roles, c \in Contents :
          AddMessageToSession(sid, role, c)
    /\ UNCHANGED <<now, moreVars, owner, call, mu, sp, rateVars, authVars>>

NextSession == SessionCreate \/ SessionAppend
SpecSession == InitMidnight /\ [][NextSession]_vars

\* one identity, requests one after another, the counter backend reachable
AdmitIncr ==
    /\ AllIdle
    /\ \E path \in {QueryPath} :
          /\ RLIncr("p1", UserA, path, TRUE, MaxCount)
          /\ win' = WinAfter(UserA, EndpointOf(path))
    /\ UNCHANGED <<now, moreVars, sessionVars, authVars>>

AdmitExpire == RLExpire("p1", TRUE) /\ UNCHANGED <<now, moreVars, sessionVars, authVars, win>>

AdmitGetCount == RLGetCount("p1", TRUE) /\ UNCHANGED <<now, moreVars, sessionVars, authVars, win>>

TickIdle == AllIdle /\ Tick

NextAdmit == AdmitIncr \/ AdmitExpire \/ AdmitGetCount \/ TickIdle
SpecAdmit == Init /\ [][NextAdmit]_vars

\* two identities using the session store and the session read endpoint, one
\* call after another; session ids are generated, or named by the client
OwnUsers == {UserA, UserB}
OwnIdInputs == {<<>>, <<"b", "-", "s1">>}

OwnCreate ==
    /\ \E user \in OwnUsers, sid \in OwnIdInputs :
          \E uuid \in NewUuids(sid) :
             /\ GetOrCreateSession(sid, user, uuid)
             /\ owner' = IF lastSid' \in DOMAIN sessions THEN owner
                         ELSE [s \in DOMAIN owner \cup {lastSid'} |->
                                 IF s = lastSid' THEN user ELSE owner[s]]
             /\ call' = [NoCall EXCEPT !.op = "create", !.user = user, !.arg = sid,
                                       !.sid = lastSid', !.existed = lastSid' \in DOMAIN sessions,
                                       !.before = sessions]
    /\ UNCHANGED <<now, moreVars, mu, sp, rateVars, authVars>>

OwnAppend ==
    /\ TotalAppends < OwnMaxAppends
    /\ \E user \in OwnUsers, sid \in DOMAIN sessions \cup {<<"s2">>}, role \in Roles, c \in Contents :
          /\ AddMessageToSession(sid, role, c)
          /\ call' = [NoCall EXCEPT !.op = "append", !.user = user, !.arg = sid, !.sid = sid,
                                    !.existed = sid \in DOMAIN sessions, !.before = sessions]
    /\ UNCHANGED <<now, moreVars, owner, mu, sp, rateVars, authVars>>

OwnRead ==
    /\ \E user \in OwnUsers, sid \in DOMAIN sessions \cup {<<"a", "-", "s2">>} :
          LET r == GetSession(sid, user)
          IN call' = [NoCall EXCEPT !.op = "read", !.user = user, !.arg = sid, !.sid = sid,
                                   !.existed = sid \in DOMAIN sessions, !.before = sessions,
                                   !.status = r.status, !.messages = r.messages]
    /\ UNCHANGED <<now, moreVars, sessions, appended, lastSid, owner, mu, sp, rateVars, authVars>>

\* time passes once between the calls
OwnTick == now < TickMinutes /\ TickIdle

NextOwn == OwnCreate \/ OwnAppend \/ OwnRead \/ OwnTick
SpecOwn == InitMidnight /\ [][NextOwn]_vars

\* two goroutines calling the session store at the same time on one session
ConcIds == {<<"s1">>}
ConcRole(p) == IF p = "p1" THEN "user" ELSE "assistant"

ConcAddLock ==
    /\ \E p \in Procs, sid \in ConcIds : AddLock(p, sid, ConcRole(p))
    /\ UNCHANGED <<now, moreVars, owner, call, rateVars, authVars>>

ConcAddLoad ==
    /\ \E p \in Procs : AddLoad(p)
    /\ UNCHANGED <<now, moreVars, owner, call, rateVars, authVars>>

ConcAddStore ==
    /\ \E p \in Procs, c \in Contents : AddStore(p, c)
    /\ UNCHANGED <<now, moreVars, owner, call, rateVars, authVars>>

ConcCreateLock ==
    /\ \E p \in Procs, sid \in ConcIds : CreateLock(p, sid)
    /\ UNCHANGED <<now, moreVars, owner, call, rateVars, authVars>>

ConcCreate ==
    /\ \E p \in Procs : CreateBody(p, UserA)
    /\ UNCHANGED <<now, moreVars, owner, call, rateVars, authVars>>

ConcReadLock ==
    /\ \E p \in Procs, sid \in ConcIds : ReadLock(p, sid)
    /\ UNCHANGED <<now, moreVars, owner, call, rateVars, authVars>>

ConcReadLoad ==
    /\ \E p \in Procs : ReadLoad(p)
    /\ UNCHANGED <<now, moreVars, owner, call, rateVars, authVars>>

NextConc ==
    \/ ConcAddLock \/ ConcAddLoad \/ ConcAddStore
    \/ ConcCreateLock \/ ConcCreate
    \/ ConcReadLock \/ ConcReadLoad
SpecConc == InitMidnight /\ [][NextConc]_vars

\* the same with a backend that may fail any command
RateIncr ==
    /\ AllIdle
    /\ \E path \in {QueryPath}, ok \in BOOLEAN : RLIncr("p1", UserA, path, ok, MaxCount)
    /\ UNCHANGED <<now, moreVars, sessionVars, authVars, win>>

RateExpire ==
    /\ \E ok \in BOOLEAN : RLExpire("p1", ok)
    /\ UNCHANGED <<now, moreVars, sessionVars, authVars, win>>

RateGetCount ==
    /\ \E ok \in BOOLEAN : RLGetCount("p1", ok)
    /\ UNCHANGED <<now, moreVars, sessionVars, authVars, win>>

NextRate == RateIncr \/ RateExpire \/ RateGetCount \/ TickIdle
SpecRate == Init /\ [][NextRate]_vars

\* several identities, admission checks and administrative clears, one after another
IsoUsers == {UserA, UserAB, UserStar}

IsoIncr ==
    /\ AllIdle
    /\ \E u \in IsoUsers, path \in AllPaths : RLIncr("p1", u, path, TRUE, IsoMaxCount)
    /\ UNCHANGED <<now, moreVars, sessionVars, authVars, win>>

IsoExpire == RLExpire("p1", TRUE) /\ UNCHANGED <<now, moreVars, sessionVars, authVars, win>>

IsoClearKeys ==
    /\ AllIdle
    /\ \E u \in IsoUsers : ClearKeys("p1", u, TRUE)
    /\ UNCHANGED <<now, moreVars, sessionVars, authVars, win>>

IsoClearDel == ClearDel("p1", TRUE) /\ UNCHANGED <<now, moreVars, sessionVars, authVars, win>>

NextIso == IsoIncr \/ IsoExpire \/ IsoClearKeys \/ IsoClearDel
SpecIso == InitMidnight /\ [][NextIso]_vars

\* the access gate: requests one after another, the provider rotating its key
\* the outcomes of the refresh's three calls matter only when a refresh is made
RefreshOutcomes(hdr) ==
    IF hdr = "Bearer" /\ Stale THEN BOOLEAN \X BOOLEAN \X BOOLEAN ELSE {<<TRUE, TRUE, TRUE>>}

GateRequest ==
    /\ \E hdr \in {"none", "Basic", "Bearer"} :
          \E token \in (IF hdr = "Bearer" THEN Tokens ELSE {NoToken}), o \in RefreshOutcomes(hdr) :
             AuthMiddleware(hdr, token, o[1], o[2], o[3])
    /\ UNCHANGED <<now, moreVars, sessionVars, rateVars, origin, vt>>

GateRotate == RotateKeys /\ UNCHANGED <<now, moreVars, sessionVars, rateVars, vt>>

GatePeerStore == PeerStore /\ UNCHANGED <<now, moreVars, sessionVars, rateVars, vt>>

\* two requests verified at the same time, the provider rotating its key
KeysTokens == {GoodToken("k1", RSAKey1), GoodToken("k2", RSAKey2)}

KeysStart ==
    /\ \E p \in Procs, token \in KeysTokens : VTStart(p, token)
    /\ UNCHANGED <<now, moreVars, sessionVars, rateVars, origin, auth>>

KeysRefresh ==
    /\ \E p \in Procs, o \in BOOLEAN \X BOOLEAN \X BOOLEAN : VTRefresh(p, o[1], o[2], o[3])
    /\ UNCHANGED <<now, moreVars, sessionVars, rateVars, origin, auth>>

KeysWriteSet ==
    /\ \E p \in Procs : VTWriteSet(p)
    /\ UNCHANGED <<now, moreVars, sessionVars, rateVars, origin, auth>>

KeysWriteStamp ==
    /\ \E p \in Procs : VTWriteStamp(p)
    /\ UNCHANGED <<now, moreVars, sessionVars, rateVars, origin, auth>>

KeysParse ==
    /\ \E p \in Procs : VTParse(p)
    /\ UNCHANGED <<now, moreVars, sessionVars, rateVars, origin, auth>>

KeysTick == (\A p \in Procs : vt[p].pc = "idle") /\ TickIdle

NextKeys ==
    \/ KeysStart \/ KeysRefresh \/ KeysWriteSet \/ KeysWriteStamp \/ KeysParse
    \/ GateRotate \/ KeysTick
SpecKeys == InitMidnight /\ [][NextKeys]_vars

\* requests to the rate-limited routes passing through the chain, one at a time
PipeTokens ==
    LET g == GoodToken("k1", RSAKey1)
    IN {g, Past(g), [g EXCEPT !.sub = NoSub]}

PipeArrive ==
    /\ req.pc \in {"idle", "done"}
    /\ AllIdle
    /\ \E hdr \in {"none", "Basic", "Bearer"}, path \in AllPaths :
          \E token \in (IF hdr = "Bearer" THEN PipeTokens ELSE {NoToken}) :
             /\ path = QueryPath => TotalAppends < PipeMaxAppends
             /\ req' = [IdleReq EXCEPT !.pc = "auth", !.hdr = hdr, !.token = token, !.path = path]
    \* a new gin.Context: nothing of the previous request's outcome is carried over
    /\ auth' = NoAuth
    /\ rl' = [rl EXCEPT !["p1"] = IdleRL]
    /\ resp' = [resp EXCEPT !["p1"] = NoResp]
    /\ UNCHANGED <<now, sessionVars, redis, win, cleared, JWKSet, LastUpdate, jwksCache,
                   origin, vt, rank, AdminKey, hq, adminReq, admitted>>

PipeAuth ==
    /\ req.pc = "auth"
    /\ \E o \in RefreshOutcomes(req.hdr) : AuthMiddleware(req.hdr, req.token, o[1], o[2], o[3])
    /\ req' = [req EXCEPT !.pc = AfterAuth(auth'), !.userId = auth'.userId,
                          !.status = IF auth'.status = "ok" THEN "-" ELSE "401"]
    /\ UNCHANGED <<now, sessionVars, rateVars, origin, vt, rank, AdminKey, hq, adminReq, admitted>>

\* RateLimitMiddleware: c.Next() when no userId is set, else CheckRateLimit
PipeIncr ==
    /\ req.pc = "rate"
    /\ IF req.userId = <<>>
       THEN /\ req' = [req EXCEPT !.pc = "handler"]
            /\ UNCHANGED <<redis, rl, resp, cleared>>
       ELSE /\ \E ok \in BOOLEAN : RLIncr("p1", req.userId, req.path, ok, MaxCount)
            /\ req' = [req EXCEPT !.pc = IF rl'["p1"].pc = "idle"
                                         THEN AfterRate(resp'["p1"]) ELSE "check"]
    /\ UNCHANGED <<now, sessionVars, authVars, win, rank, AdminKey, hq, adminReq, admitted>>

PipeExpire ==
    /\ req.pc = "check"
    /\ RLExpire("p1", TRUE)
    /\ req' = [req EXCEPT !.pc = IF rl'["p1"].pc = "idle"
                                 THEN AfterRate(resp'["p1"]) ELSE "check"]
    /\ UNCHANGED <<now, sessionVars, authVars, win, rank, AdminKey, hq, adminReq, admitted>>

PipeGetCount ==
    /\ req.pc = "check"
    /\ RLGetCount("p1", TRUE)
    /\ req' = [req EXCEPT !.pc = AfterRate(resp'["p1"]), !.status = resp'["p1"].status]
    /\ UNCHANGED <<now, sessionVars, authVars, win, rank, AdminKey, hq, adminReq, admitted>>

\* the handler: QueryData gets or creates the session, SaveData calls the
\* embedding and vector services
PipeHandler ==
    /\ req.pc = "handler"
    /\ IF req.path = QueryPath
       THEN /\ GetOrCreateSession(<<"s1">>, req.userId, "unused")
            /\ req' = [req EXCEPT !.pc = "append"]
       ELSE /\ req' = [req EXCEPT !.pc = "done", !.status = "200", !.called = TRUE]
            /\ UNCHANGED <<sessions, appended, lastSid>>
    /\ UNCHANGED <<now, owner, call, mu, sp, rateVars, authVars, rank, AdminKey, hq, adminReq, admitted>>

PipeAppend ==
    /\ req.pc = "append"
    /\ AddMessageToSession(lastSid, "user", "m")
    /\ req' = [req EXCEPT !.pc = "done", !.status = "200", !.called = TRUE]
    /\ UNCHANGED <<now, owner, call, mu, sp, rateVars, authVars, rank, AdminKey, hq, adminReq, admitted>>

PipeTick == req.pc \in {"idle", "done"} /\ TickIdle

NextPipe ==
    \/ PipeArrive \/ PipeAuth \/ PipeIncr \/ PipeExpire \/ PipeGetCount
    \/ PipeHandler \/ PipeAppend \/ PipeTick
SpecPipe == InitMidnight /\ [][NextPipe]_vars

\* the admin endpoint, with and without ADMIN_API_KEY configured, next to two
\* identities being counted
InitAdmin == Init /\ now = 0

AdminIncr ==
    /\ AllIdle
    /\ \E u \in {UserA, UserB} : RLIncr("p1", u, QueryPath, TRUE, IsoMaxCount)
    /\ UNCHANGED <<now, moreVars, sessionVars, authVars, win>>

AdminExpire ==
    /\ RLExpire("p1", TRUE)
    /\ UNCHANGED <<now, moreVars, sessionVars, authVars, win>>

AdminClear ==
    /\ AllIdle
    /\ \E apiKey \in ApiKeyInputs, userId \in TargetInputs, ok \in BOOLEAN :
          ClearCache("p1", apiKey, userId, ok)
    /\ UNCHANGED <<now, sessionVars, authVars, win, req, rank, AdminKey, hq, admitted>>

AdminDel ==
    /\ \E ok \in BOOLEAN : ClearDel("p1", ok)
    /\ UNCHANGED <<now, moreVars, sessionVars, authVars, win>>

NextAdmin == AdminIncr \/ AdminExpire \/ AdminClear \/ AdminDel \/ TickIdle
SpecAdmin == InitAdmin /\ [][NextAdmin]_vars

\* the ranking pass of QueryData on the result of one similarity search
RankQuery ==
    /\ \E matches \in RankInputs : RankStart(matches)
    /\ UNCHANGED <<now, sessionVars, rateVars, authVars, req, AdminKey, hq, adminReq, admitted>>

RankLoop ==
    /\ RankDedup
    /\ UNCHANGED <<now, sessionVars, rateVars, authVars, req, AdminKey, hq, adminReq, admitted>>

RankOut ==
    /\ RankFormat
    /\ UNCHANGED <<now, sessionVars, rateVars, authVars, req, AdminKey, hq, adminReq, admitted>>

\* the same query asked twice, on results of up to RerunMatches matches
RerunInputs == {m \in RankInputs : Len(m) <= RerunMatches}

RerunQuery ==
    /\ \E matches \in RerunInputs : RankStart(matches)
    /\ UNCHANGED <<now, sessionVars, rateVars, authVars, req, AdminKey, hq, adminReq, admitted>>

RerunAgain ==
    /\ RankAgain
    /\ UNCHANGED <<now, sessionVars, rateVars, authVars, req, AdminKey, hq, adminReq, admitted>>

NextRerun == RerunQuery \/ RerunAgain \/ RankLoop \/ RankOut
SpecRerun == InitMidnight /\ [][NextRerun]_vars

NextRank == RankQuery \/ RankLoop \/ RankOut
SpecRank == InitMidnight /\ [][NextRank]_vars

\* one identity on the paths of the rate-limited group
BucketPaths ==
    {QueryPath, QueryPath \o <<"/", "x">>, SavePath, SavePath \o <<"/", "x">>,
     SavePath \o <<"-", "tweet">>, SavePath \o <<"-", "pdf">>,
     <<"/api/", "reset", "-", "session">>}

BucketIncr ==
    /\ AllIdle
    /\ \E path \in BucketPaths : RLIncr("p1", UserA, path, TRUE, IsoMaxCount)
    /\ UNCHANGED <<now, moreVars, sessionVars, authVars, win>>

BucketExpire ==
    /\ RLExpire("p1", TRUE)
    /\ UNCHANGED <<now, moreVars, sessionVars, authVars, win>>

BucketTick == now < TickMinutes /\ TickIdle

NextBucket == BucketIncr \/ BucketExpire \/ BucketTick
SpecBucket == InitMidnight /\ [][NextBucket]_vars

\* two request goroutines checking the same counter at the same time, in one
\* window, Redis reachable
RaceIncr ==
    /\ \E p \in Procs :
          /\ RLIncr(p, UserA, QueryPath, TRUE, MaxCount)
          /\ admitted' = Answered(Observed(admitted, rl[p], rl'[p]), resp'[p])
    /\ UNCHANGED <<now, sessionVars, authVars, win, req, rank, AdminKey, hq, adminReq>>

RaceExpire ==
    /\ \E p \in Procs :
          /\ RLExpire(p, TRUE)
          /\ admitted' = Answered(admitted, resp'[p])
    /\ UNCHANGED <<now, sessionVars, authVars, win, req, rank, AdminKey, hq, adminReq>>

RaceGetCount ==
    /\ \E p \in Procs :
          /\ RLGetCount(p, TRUE)
          /\ admitted' = Answered(admitted, resp'[p])
    /\ UNCHANGED <<now, sessionVars, authVars, win, req, rank, AdminKey, hq, adminReq>>

NextRace == RaceIncr \/ RaceExpire \/ RaceGetCount
SpecRace == InitMidnight /\ [][NextRace]_vars

\* two identities sending query and reset-session requests, each from its own
\* goroutine, two requests at a time; the user id in the body is the caller's or
\* the other's, the session id is empty or one that carries the prefix of a
HandlerUsers == {UserA, UserB}
HandlerAuth(p) == IF p = "p1" THEN UserA ELSE UserB
HandlerIdInputs == {<<>>, <<"a", "-", "s1">>}
HandlerTexts == {"", "m"}
HandlerOther == <<now, mu, sp, owner, call, rateVars, authVars, req, rank, AdminKey,
                  adminReq, admitted>>

HandlerQuery ==
    /\ \E p \in Procs, u \in HandlerUsers, sid \in HandlerIdInputs, text \in HandlerTexts :
          \E uuid \in NewUuids(sid) : QueryStart(p, HandlerAuth(p), u, sid, text, uuid)
    /\ UNCHANGED HandlerOther

HandlerSearch ==
    /\ \E p \in Procs, ok \in BOOLEAN : QuerySearch(p, ok)
    /\ UNCHANGED HandlerOther

HandlerAddUser ==
    /\ TotalAppends < HandlerMaxAppends
    /\ \E p \in Procs : QueryAddUser(p)
    /\ UNCHANGED HandlerOther

HandlerComplete ==
    /\ \E p \in Procs, ok \in BOOLEAN : QueryComplete(p, ok)
    /\ UNCHANGED HandlerOther

HandlerAddAssistant ==
    /\ \E p \in Procs : QueryAddAssistant(p)
    /\ UNCHANGED HandlerOther

HandlerReset ==
    /\ \E p \in Procs, u \in HandlerUsers \cup {<<>>}, sid \in HandlerIdInputs :
          \E uuid \in NewUuids(<<>>) : ResetSession(p, HandlerAuth(p), u, sid, uuid)
    /\ UNCHANGED HandlerOther

NextHandler ==
    \/ HandlerQuery \/ HandlerSearch \/ HandlerAddUser \/ HandlerComplete
    \/ HandlerAddAssistant \/ HandlerReset
SpecHandler == InitMidnight /\ [][NextHandler]_vars

\* one identity sending requests to one endpoint for a whole day, Redis
\* answering every INCR and GET, an EXPIRE possibly failing; time goes on and
\* the identity keeps sending
LiveEnd == DayMinutes

LiveIncr ==
    /\ AllIdle
    /\ RLIncr("p1", UserA, QueryPath, TRUE, MaxCount)
    /\ UNCHANGED <<now, moreVars, sessionVars, authVars, win>>

LiveExpire ==
    /\ \E ok \in BOOLEAN : RLExpire("p1", ok)
    /\ UNCHANGED <<now, moreVars, sessionVars, authVars, win>>

LiveGetCount ==
    /\ RLGetCount("p1", TRUE)
    /\ UNCHANGED <<now, moreVars, sessionVars, authVars, win>>

LiveTick ==
    /\ AllIdle
    /\ now < LiveEnd
    /\ now' = now + TickMinutes
    /\ redis' = Expired(redis, now + TickMinutes)
    /\ jwksCache' = IF jwksCache.present /\ jwksCache.exp <= now + TickMinutes
                    THEN NoCache ELSE jwksCache
    /\ UNCHANGED <<sessionVars, rl, resp, win, cleared, JWKSet, LastUpdate, origin, auth, vt>>
    /\ UNCHANGED moreVars

NextLive == LiveIncr \/ LiveExpire \/ LiveGetCount \/ LiveTick
SpecLive ==
    /\ InitMidnight /\ [][NextLive]_vars
    /\ WF_vars(LiveIncr) /\ WF_vars(LiveExpire) /\ WF_vars(LiveGetCount) /\ WF_vars(LiveTick)

NextAuth == GateRequest \/ GateRotate \/ GatePeerStore \/ TickIdle
SpecAuth == InitMidnight /\ [][NextAuth]_vars

Next ==
    \/ SessionCreate \/ SessionAppend
    \/ OwnCreate \/ OwnAppend \/ OwnRead \/ OwnTick
    \/ ConcAddLock \/ ConcAddLoad \/ ConcAddStore
    \/ ConcCreateLock \/ ConcCreate
    \/ ConcReadLock \/ ConcReadLoad
    \/ RateIncr \/ RateExpire \/ RateGetCount
    \/ IsoIncr \/ IsoExpire \/ IsoClearKeys \/ IsoClearDel
    \/ GateRequest \/ GateRotate \/ GatePeerStore
    \/ KeysStart \/ KeysRefresh \/ KeysWriteSet \/ KeysWriteStamp \/ KeysParse \/ KeysTick
    \/ PipeArrive \/ PipeAuth \/ PipeIncr \/ PipeExpire \/ PipeGetCount
    \/ PipeHandler \/ PipeAppend \/ PipeTick
    \/ AdminIncr \/ AdminExpire \/ AdminClear \/ AdminDel
    \/ RankQuery \/ RankLoop \/ RankOut
    \/ RerunQuery \/ RerunAgain
    \/ BucketIncr \/ BucketExpire \/ BucketTick
    \/ RaceIncr \/ RaceExpire \/ RaceGetCount
    \/ HandlerQuery \/ HandlerSearch \/ HandlerAddUser \/ HandlerComplete
    \/ HandlerAddAssistant \/ HandlerReset
    \/ LiveIncr \/ LiveExpire \/ LiveGetCount \/ LiveTick
    \/ TickIdle

Spec == Init /\ [][Next]_vars

-----------------------------------------------------------------------------
(* Claims *)

\* the last n elements of q, all of q when it has no more than n
LastN(q, n) == [i \in 1..Min(n, Len(q)) |-> q[Len(q) - Min(n, Len(q)) + i]]

\* C1: every stored session holds at most 10 messages, and once more than 10
\* have been appended to it, the stored messages are the 10 appended last, in
\* the order they were appended.
C1_HistoryIsLastTen ==
    \A s \in DOMAIN sessions :
        /\ Len(sessions[s].Messages) <= MaxMessages
        /\ sessions[s].Messages = LastN(appended[s], MaxMessages)

C1_Witness ==
    \E s \in DOMAIN sessions :
        /\ Len(appended[s]) > MaxMessages
        /\ appended[s][1] # appended[s][Len(appended[s])]

\* the number of admission checks the identity of p's last request has made on
\* its endpoint in the window that request fell in
NthInWindow(p) == win[<<rl[p].user, rl[p].ep>>].n

\* C2: of the sequential admission checks of one identity on one endpoint in
\* one day and one window, with the backend reachable, the 1st to the 30th are
\* admitted and the 31st is rejected with the count 31 reported.
C2_AdmitUpToLimit ==
    \A p \in Procs :
        resp[p].status # "none" =>
            /\ NthInWindow(p) <= Limit => resp[p].status = "next"
            /\ NthInWindow(p) = Limit + 1 =>
                   resp[p].status = "429" /\ resp[p].count = Limit + 1

C2_Witness ==
    \E p \in Procs :
        resp[p].status = "429" /\ NthInWindow(p) = Limit + 1 /\ resp[p].count = Limit + 1

\* what the last request's token looks like to the verifier
Tok == auth.token
SignedByKnownKey == Tok.kid \in DOMAIN auth.keys /\ auth.keys[Tok.kid].id = Tok.signer
IssuerMatches == Tok.iss = IssuerURL
ExpiryInFuture == Tok.exp.kind = "num" /\ Tok.exp.t > auth.at
ExpiryInPast == Tok.exp.kind = "num" /\ Tok.exp.t < auth.at
Accepted == auth.status = "ok" /\ auth.userId = Tok.sub
Verified == auth.hdr = "Bearer" /\ auth.reasons \cap {"User ID not found in token"} = auth.reasons
ExpiredReason == auth.reasons \cap {"token is expired", "token expired"} # {}

\* C3 as stated: a token signed with a key whose key id is in the current key
\* set, with the configured issuer and an expiry in the future, is verified and
\* the gate sets the identity to its subject.
C3_Original ==
    (auth.hdr = "Bearer" /\ SignedByKnownKey /\ IssuerMatches /\ ExpiryInFuture) => Accepted

\* C3: a token with an RSA signature made by a key whose key id is in the
\* current key set, with the configured issuer, a numeric expiry in the future,
\* no not-before in the future and a string subject, is verified, and the gate
\* sets the identity to its subject.
C3_ValidTokenAccepted ==
    (/\ auth.hdr = "Bearer" /\ SignedByKnownKey /\ IssuerMatches /\ ExpiryInFuture
     /\ Tok.alg = "RS256" /\ Tok.nbf # "future" /\ Tok.sub # NoSub) => Accepted

C3_Witness ==
    /\ Accepted /\ Tok.kid = "k2" /\ auth.refreshes = 1
    /\ SignedByKnownKey /\ IssuerMatches /\ ExpiryInFuture

\* C4: a token is verified only if its algorithm is asymmetric, its key id is
\* in the current key set, its issuer is the configured one and its expiry is
\* present and in the future.
C4_AcceptedOnlyIf ==
    (auth.hdr = "Bearer" /\ Verified) =>
        /\ Tok.alg \in {"RS256", "ES256"}
        /\ Tok.kid \in DOMAIN auth.keys
        /\ IssuerMatches
        /\ ExpiryInFuture

C4_Witness == auth.status = "ok" /\ Verified /\ Tok.alg = "RS256" /\ ExpiryInFuture

\* C5 as stated: a token whose expiry is in the past fails with the
\* token-expired reason, whatever its signature.
C5_Original ==
    (auth.hdr = "Bearer" /\ ExpiryInPast) => (auth.status = "401" /\ ExpiredReason)

\* C5: a token whose expiry is in the past is never verified; it fails with
\* the token-expired reason exactly when it passes the checks made before the
\* claims are looked at (RSA method, key id found, signature valid), and with
\* the reason of the first of those checks it fails otherwise.
C5_ExpiredRejected ==
    (auth.hdr = "Bearer" /\ ExpiryInPast) =>
        /\ auth.status = "401"
        /\ ExpiredReason <=> (Tok.alg = "RS256" /\ SignedByKnownKey)
        /\ Tok.alg # "RS256" => auth.reasons = {"unexpected signing method"}
        /\ (Tok.alg = "RS256" /\ Tok.kid = "-") => auth.reasons = {"kid header not found"}
        /\ (Tok.alg = "RS256" /\ Tok.kid # "-" /\ Tok.kid \notin DOMAIN auth.keys) =>
               auth.reasons = {"key not found"}
        /\ (Tok.alg = "RS256" /\ Tok.kid \in DOMAIN auth.keys /\ ~SignedByKnownKey) =>
               auth.reasons = {"signature is invalid"}

C5_Witness ==
    /\ auth.hdr = "Bearer" /\ ExpiryInPast /\ auth.status = "401"
    /\ auth.reasons = {"signature is invalid"}

\* the request named a key id that the cached key set did not hold when
\* VerifyToken was called
UnknownKid == auth.hdr = "Bearer" /\ Tok.kid # "-" /\ ~auth.known
WasStale == auth.at - auth.last > StaleMinutes

CountersOf(u, store) == [k \in KeysOf(u, AllPaths) \cap DOMAIN store |-> store[k]]

\* C7: no admission check or clear made for one identity changes, creates or
\* deletes a counter of another identity.
C7_Isolation ==
    [][\A p \in Procs :
          rl'[p] # rl[p] =>
             \A u \in IsoUsers \ {rl'[p].user} : CountersOf(u, redis') = CountersOf(u, redis)]_vars

\* C8: a clear for an identity returns the number of counter keys the
\* identity had when it was called and leaves none of them behind, and the
\* identity's next admission check counts from 1.
C8_ClearExact ==
    \A p \in Procs :
        /\ resp[p].status = "cleared" => (resp[p].count = resp[p].own /\ resp[p].left = 0)
        /\ rl[p].fresh => rl[p].cnt = 1

\* C9: when the backend fails the increment or the setting of the expiry, the
\* request is passed to the handler and no error is answered.
C9_FailOpen == \A p \in Procs : resp[p].err => resp[p].status = "next"

C9_Witness ==
    \E p \in Procs :
        /\ resp[p].err /\ resp[p].status = "next" /\ rl[p].cnt = 1
        /\ RateKey(rl[p].user, rl[p].ep, now) \in DOMAIN redis
        /\ redis[RateKey(rl[p].user, rl[p].ep, now)].exp = NoExp

\* C10: a 429 carries the limit the admission check enforces and the counter
\* value that made the check reject the request.
C10_RejectionReportsLimit ==
    \A p \in Procs :
        resp[p].status = "429" => (resp[p].limit = Limit /\ resp[p].count = resp[p].cause)

\* C11: once a counter has passed the threshold, rejected requests add nothing
\* to it: no counter ever holds more than the threshold plus one.
C11_NoIncrementAfterReject ==
    \A k \in DOMAIN redis : redis[k].val <= Limit + 1

\* a counter key is gone, or holds less than before
Lowered(k) == k \notin DOMAIN redis' \/ redis'[k].val < redis[k].val

\* the step is the DEL of a clear called for the identity that owns key k
ClearedForOwner(k) ==
    \E p \in Procs : rl[p].pc = "del" /\ rl'[p].pc = "idle" /\ k \in KeysOf(rl[p].user, AllPaths)

\* the step is the passing of time beyond the time-to-live of key k
TTLExpired(k) == redis[k].exp # NoExp /\ redis[k].exp <= now'

\* C12: a counter is lowered or removed only by the expiry of its time-to-live
\* or by a clear called for the identity it belongs to.
C12_MonotoneUnlessReset ==
    [][\A k \in DOMAIN redis : Lowered(k) => (TTLExpired(k) \/ ClearedForOwner(k))]_vars

\* the step is p's EXPIRE on key k; it failed
Expiring(k) ==
    \E p \in Procs : rl[p].pc = "expire" /\ k = RateKey(rl[p].user, rl[p].ep, now)
ExpireFailed(k) ==
    \E p \in Procs : rl[p].pc = "expire" /\ k = RateKey(rl[p].user, rl[p].ep, now) /\ resp'[p].err

\* C13 as stated: whenever no admission check is under way, every counter key
\* has a time-to-live.
C13_Original ==
    AllIdle => \A k \in DOMAIN redis : redis[k].exp # NoExp

\* C13: whenever an admission check completes, every counter key either has a
\* time-to-live that ends within the window duration from now, or has none
\* because the EXPIRE of the check that created it failed; a key left without
\* a time-to-live stays without one.
C13_ExpiryUnlessFailed ==
    [][AllIdle' =>
          \A k \in DOMAIN redis' :
             IF redis'[k].exp = NoExp
             THEN /\ k \in DOMAIN redis
                  /\ redis[k].exp = NoExp
                  /\ Expiring(k) => ExpireFailed(k)
             ELSE now' < redis'[k].exp /\ redis'[k].exp <= now' + WindowMinutes]_vars

C13_Witness ==
    /\ AllIdle
    /\ \E k \in DOMAIN redis : redis[k].val >= 2 /\ redis[k].exp > now
    /\ \E p \in Procs : resp[p].status = "next" /\ ~resp[p].err

\* C14: an append to a session id that is not in the store leaves the store
\* as it was: no session appears, and no session's messages or timestamps
\* change.
C14_AppendMissingIsNoOp ==
    (call.op = "append" /\ ~call.existed) => sessions = call.before

C14_Witness ==
    /\ call.op = "append" /\ ~call.existed /\ call.sid \notin DOMAIN sessions
    /\ \E s \in DOMAIN sessions : Len(sessions[s].Messages) > 0 /\ sessions[s].UpdatedAt < now

\* C15: a read of a session by an identity other than the one whose call
\* created it is answered 403 and returns none of its messages, and 404 is
\* answered only for an id with the caller's prefix that is not in the store.
C15_ReadOnlyByOwner ==
    call.op = "read" =>
        /\ (call.sid \in DOMAIN owner /\ owner[call.sid] # call.user) =>
               (call.status = "403" /\ call.messages = <<>>)
        /\ call.status = "404" =>
               (HasPrefix(call.sid, call.user \o <<"-">>) /\ call.sid \notin DOMAIN sessions)

\* C16: GetOrCreateSession with an empty id returns an id that starts with the
\* caller's identity and "-", that was not in the store, and that now names a
\* session with no messages; every session that was in the store is unchanged.
C16_EmptyIdMakesNewSession ==
    (call.op = "create" /\ call.arg = <<>>) =>
        /\ HasPrefix(call.sid, call.user \o <<"-">>)
        /\ call.sid \notin DOMAIN call.before
        /\ call.sid \in DOMAIN sessions
        /\ sessions[call.sid].Messages = <<>>
        /\ \A s \in DOMAIN call.before : sessions[s] = call.before[s]
        /\ DOMAIN sessions = DOMAIN call.before \cup {call.sid}

C16_Witness ==
    /\ call.op = "create" /\ call.arg = <<>> /\ call.user = UserB
    /\ NewSessionId(UserA, "r1") \in DOMAIN call.before
    /\ Len(call.before[NewSessionId(UserA, "r1")].Messages) > 0
    /\ call.sid = NewSessionId(UserB, "r2")

\* C17: whatever the interleaving of the calls, the store is what the appends
\* give when made one at a time in the order they were written back: every
\* session holds the last 10 of all the messages appended to it, none lost;
\* what a reader was given is at most 10 messages long and is the whole history
\* as it stood after some number of those appends; a goroutine inside a
\* mutation holds the lock alone.
C17_Serializable ==
    /\ \A s \in DOMAIN sessions : sessions[s].Messages = LastN(appended[s], MaxMessages)
    /\ \A p \in Procs :
          sp[p].got.found =>
             /\ Len(sp[p].got.msgs) <= MaxMessages
             /\ sp[p].got.seen <= Len(appended[sp[p].got.sid])
             /\ sp[p].got.msgs =
                   LastN(SubSeq(appended[sp[p].got.sid], 1, sp[p].got.seen), MaxMessages)
    /\ \A p \in Procs :
          sp[p].pc \in {"locked", "loaded", "creating"} =>
             /\ mu.writer = p /\ mu.readers = {}
             /\ sp[p].pc = "loaded" => sp[p].local = sessions[sp[p].sid]

C17_Witness ==
    /\ sp["p1"].pc = "creating" /\ sp["p2"].got.found
    /\ Len(appended[<<"s1">>]) > MaxMessages
    /\ sp["p2"].got.seen < Len(appended[<<"s1">>])
    /\ \E i, j \in 1..Len(sessions[<<"s1">>].Messages) :
          sessions[<<"s1">>].Messages[i].Role # sessions[<<"s1">>].Messages[j].Role

\* some goroutine has replaced the key set and not yet the load time: the key
\* set is the new one, the load time still the one of the set it replaced
PartialPair ==
    \E q \in Procs :
        /\ vt[q].pc = "writestamp"
        /\ JWKSet = vt[q].new.set /\ JWKSet # vt[q].prev
        /\ LastUpdate = vt[q].stamp

\* C18: the key set and its load time are replaced together: no step replaces
\* one without the other, and no verification reads the key set while it is
\* the new one and the load time still the old one.
C18_AtomicSwap ==
    [][/\ JWKSet' # JWKSet => LastUpdate' = now'
       /\ \A p \in Procs : (vt[p].pc = "parse" /\ vt'[p].pc = "idle") => ~PartialPair]_vars

\* the token of the request being answered is one the key set ks verifies
GoodFor(t, ks) ==
    /\ t.alg = "RS256" /\ t.kid \in DOMAIN ks /\ ks[t.kid].id = t.signer
    /\ t.iss = IssuerURL /\ t.exp.kind = "num" /\ t.exp.t > now
    /\ t.nbf # "future" /\ t.sub # NoSub

\* C19: when the refresh a request triggered fails, the key set and its load
\* time stay as they were, the token is looked up in that key set, and a token
\* that key set verifies is accepted; the failure of the refresh is not the
\* reason of any rejection.
C19_RefreshFailureKeepsKeys ==
    [][(auth' # auth /\ auth'.failed) =>
          /\ auth'.refreshes = 1
          /\ JWKSet' = JWKSet /\ LastUpdate' = LastUpdate
          /\ auth'.keys = JWKSet
          /\ GoodFor(auth'.token, JWKSet) => (auth'.status = "ok" /\ auth'.userId = auth'.token.sub)
          /\ (auth'.token.alg = "RS256" /\ auth'.token.kid # "-"
                /\ auth'.token.kid \notin DOMAIN JWKSet) => auth'.reasons = {"key not found"}]_vars

C19_Witness ==
    /\ auth.failed /\ auth.refreshes = 1 /\ auth.status = "ok"
    /\ origin = KeySet2 /\ JWKSet = KeySet1 /\ auth.keys = KeySet1
    /\ LastUpdate = auth.last /\ auth.at - LastUpdate > StaleMinutes

\* C20: a verification attempts a refresh exactly when more than 30 minutes
\* have passed since the last successful load; a refresh that succeeds sets the
\* load time to the time of the request, any other request leaves it alone, so
\* the requests of the next 30 minutes attempt none.
C20_RefreshIffStale ==
    auth.hdr = "Bearer" =>
        /\ auth.refreshes = 1 <=> auth.at - auth.last > StaleMinutes
        /\ auth.refreshes \in {0, 1}
        /\ (auth.refreshes = 1 /\ ~auth.failed) => LastUpdate = auth.at
        /\ (auth.refreshes = 0 \/ auth.failed) => LastUpdate = auth.last
        /\ LastUpdate <= now

C20_Witness ==
    /\ auth.hdr = "Bearer" /\ auth.refreshes = 0
    /\ auth.last > 0 /\ auth.at > auth.last /\ LastUpdate = auth.last

\* the Redis entry holds a key set and the read of it succeeds
CacheHit == jwksCache.present /\ auth'.cacheOk

\* C21: a refresh takes the key set from the Redis entry whenever the entry is
\* there and reads, and then does not ask the provider and writes nothing;
\* otherwise it asks the provider, and a fetch that succeeds installs the
\* provider's key set and is followed by a write of that key set to Redis with
\* the time-to-live of the entry (the entry holds it when the write succeeds).
C21_CacheThenOrigin ==
    [][(auth' # auth /\ auth'.refreshes = 1) =>
          /\ CacheHit =>
                /\ ~auth'.fetched /\ ~auth'.stored /\ ~auth'.failed
                /\ JWKSet' = jwksCache.data /\ jwksCache' = jwksCache
          /\ ~CacheHit => auth'.fetched
          /\ (auth'.fetched /\ ~auth'.failed) =>
                /\ JWKSet' = origin /\ auth'.stored
                /\ IF auth'.storeOk
                   THEN jwksCache' = [present |-> TRUE, data |-> origin,
                                      exp |-> now + JWKSTTLMinutes]
                   ELSE jwksCache' = jwksCache
          /\ auth'.failed => (~auth'.stored /\ jwksCache' = jwksCache)]_vars

C21_Witness ==
    /\ auth.refreshes = 1 /\ auth.fetched /\ auth.stored /\ auth.storeOk
    /\ JWKSet = KeySet2 /\ jwksCache.present /\ jwksCache.data = KeySet2
    /\ jwksCache.exp = auth.at + JWKSTTLMinutes


\* C22: a request to a protected route without an Authorization header, or with
\* one that is not a Bearer header, is answered 401 at the first stage and
\* aborted: no key refresh or token verification, no counter increment and no
\* handler (no session written, no collaborator called) runs for it
NonBearer == req.hdr \in {"none", "Basic"}
C22_NonBearerAborted ==
    [][/\ (req.pc = "auth" /\ NonBearer) =>
            /\ req'.pc = "done" /\ req'.status = "401"
            /\ auth'.status = "401" /\ auth'.refreshes = 0 /\ auth'.userId = <<>>
            /\ UNCHANGED <<redis, sessions, appended, JWKSet, LastUpdate, jwksCache>>
       /\ (req'.hdr \in {"none", "Basic"}) =>
            /\ req'.pc \in {"auth", "done"}
            /\ ~req'.called]_vars

\* a request without a header answered 401 while the key set was stale and
\* counters and sessions existed
C22_Witness ==
    /\ req.pc = "done" /\ req.hdr = "none" /\ req.status = "401"
    /\ Stale
    /\ redis # << >>
    /\ sessions # << >>

\* C29: on a rate-limited route the stages run in the order verify token,
\* admission check, handler: a counter is incremented only for a request whose
\* token verified with a string subject, the handler runs only after the
\* admission check let the request through, and a request answered 429 creates
\* no session, appends no message and calls no collaborator
CounterRaised ==
    \E k \in DOMAIN redis' : k \notin DOMAIN redis \/ redis'[k].val > redis[k].val
C29_VerifyThenAdmitThenHandle ==
    [][/\ CounterRaised =>
            /\ req.pc = "rate"
            /\ auth.status = "ok" /\ Verify(req.token, JWKSet) = {}
            /\ req.token.sub # NoSub /\ req.userId = req.token.sub
       /\ (req'.pc \in {"handler", "append"} \/ req'.called) =>
            /\ auth'.status = "ok"
            /\ resp'["p1"].status = "next"
       /\ (sessions' # sessions \/ appended' # appended) => req.pc \in {"handler", "append"}
       /\ resp'["p1"].status = "429" =>
            /\ req'.pc = "done" /\ req'.status = "429" /\ ~req'.called
            /\ UNCHANGED <<sessions, appended>>]_vars

\* a request answered 429 while an earlier one had been handled
C29_Witness ==
    /\ req.pc = "done" /\ req.status = "429"
    /\ resp["p1"].count > Limit
    /\ auth.status = "ok"
    /\ sessions # << >>


\* C23: the admin clear-cache operation deletes rate counters only for a
\* request that carries the shared-secret header with the configured secret:
\* in every configuration, a request with a missing or wrong secret deletes no
\* counter, and a request without a target identity deletes no counter
CounterDeleted == now' = now /\ \E k \in DOMAIN redis : k \notin DOMAIN redis'
C23_ClearOnlyWithSecret ==
    [][/\ CounterDeleted =>
            /\ adminReq.apiKey # ""
            /\ adminReq.apiKey = AdminKey
            /\ adminReq.userId # <<>>
       /\ adminReq'.cleared =>
            /\ adminReq'.apiKey # ""
            /\ adminReq'.apiKey = AdminKey
            /\ adminReq'.userId # <<>>]_vars


\* the ranking pass is past its deduplicating loop on a non-empty result
Ranked == rank.pc \in {"format", "done"} /\ Len(rank.matches) > 0
\* the first 50 characters of a text, or the whole text if it is shorter
Prefix50(text) == [i \in 1..Min(Len(text), 50) |-> text[i]]
ConsideredIdx == 1..Min(10, Len(rank.matches))
MaxScore(key) ==
    LET scores == {rank.matches[i].score :
                     i \in {j \in ConsideredIdx : Prefix50(rank.matches[j].text) = key}}
    IN CHOOSE m \in scores : \A x \in scores : x <= m
BlockText(b) == b[4]
BlockScore(b) == b[6]

\* C24: among the considered matches that share a dedup key (the first 50
\* characters of the text, or the whole text if shorter) exactly one survives
\* and the score shown for it is the maximum among them; every distinct key
\* has its survivor
C24_DedupKeepsMaxPerKey ==
    Ranked =>
      /\ DOMAIN rank.uniqueResults = {Prefix50(rank.matches[i].text) : i \in ConsideredIdx}
      /\ \A key \in DOMAIN rank.uniqueResults : rank.uniqueResults[key] = MaxScore(key)
      /\ \A j \in 1..Len(rank.contextText) :
            /\ BlockText(rank.contextText[j]) \in DOMAIN rank.uniqueResults
            /\ BlockScore(rank.contextText[j])
                  = Format2(MaxScore(BlockText(rank.contextText[j])))
            /\ \A h \in 1..Len(rank.contextText) :
                  BlockText(rank.contextText[h]) = BlockText(rank.contextText[j]) => h = j

\* two long texts with the same first 50 characters, the second with the higher
\* score, and a short text: two blocks, the duplicate shown with the higher score
C24_Witness ==
    /\ rank.pc = "done"
    /\ Len(rank.matches) = 3
    /\ rank.matches[1].text = A50x /\ rank.matches[2].text = A50y
    /\ rank.matches[2].score > rank.matches[1].score
    /\ DOMAIN rank.uniqueResults = {A50, Xyz}
    /\ rank.uniqueResults[A50] = rank.matches[2].score
    /\ Len(rank.contextText) = 2

\* C25: on zero matches the context block is exactly the fixed sentinel, never
\* the empty string; on one or more matches the sentinel is never produced
SentinelBlock == <<"No relevant information found in your saved data.">>
C25_SentinelIffNoMatches ==
    /\ rank.pc = "done" /\ Len(rank.matches) = 0 => rank.contextText = <<SentinelBlock>>
    /\ rank.pc = "done" => rank.contextText # <<>>
    /\ Len(rank.matches) > 0 =>
          \A j \in 1..Len(rank.contextText) : rank.contextText[j] # SentinelBlock

C25_Witness ==
    /\ rank.pc = "done"
    /\ rank.matches = <<>>
    /\ rank.contextText = <<SentinelBlock>>

\* C26: the pass considers only the 10 highest-scoring matches, puts out at
\* most 5 blocks numbered consecutively from 1, and when more than 5 keys
\* survive the 5 put out are the 5 highest-scoring survivors
SortedByScore ==
    \A i, j \in 1..Len(rank.matches) : i < j => rank.matches[i].score >= rank.matches[j].score
C26_TopTenThenTopFive ==
    (Ranked /\ SortedByScore) =>
      /\ DOMAIN rank.uniqueResults = {Prefix50(rank.matches[i].text) : i \in ConsideredIdx}
      /\ Len(rank.contextText) <= 5
      /\ \A j \in 1..Len(rank.contextText) : rank.contextText[j][2] = j
      /\ (rank.pc = "done" /\ Cardinality(DOMAIN rank.uniqueResults) > 5) =>
            /\ Len(rank.contextText) = 5
            /\ \A e \in rank.emitted, u \in DOMAIN rank.uniqueResults \ rank.emitted :
                  rank.uniqueResults[e] >= rank.uniqueResults[u]


\* the verification conditions a token violates, as the claim names them
Violations(t, keys) ==
    (IF ~IsRSAMethod(t.alg) THEN {"unsupported algorithm"} ELSE {})
    \cup (IF IsRSAMethod(t.alg) /\ t.kid \notin DOMAIN keys THEN {"unknown signing key"} ELSE {})
    \cup (IF t.iss \notin {"-", IssuerURL} THEN {"issuer mismatch"} ELSE {})
    \cup (IF t.exp.kind = "num" /\ t.exp.t < now THEN {"expired"} ELSE {})
    \cup (IF t.exp.kind \in {"missing", "string"} \/ t.iss = "-" THEN {"malformed claims"} ELSE {})
ReportedExpired(reasons) == reasons \cap {"token expired", "token is expired"} # {}

\* C27: every violated verification condition has its own failure reason:
\* two tokens that violate one condition each, and different ones, are never
\* given the same reason; a token whose expiry claim is missing or not a number
\* is not reported as expired, and a token without issuer is not reported as an
\* issuer mismatch
C27_DistinctReasons ==
    (auth.hdr = "Bearer" /\ auth.status = "401") =>
      /\ auth.token.exp.kind \in {"missing", "string"} => ~ReportedExpired(auth.reasons)
      /\ auth.token.iss = "-" => "invalid issuer" \notin auth.reasons
      /\ \A t \in Tokens :
            (/\ Cardinality(Violations(t, auth.keys)) = 1
             /\ Cardinality(Violations(auth.token, auth.keys)) = 1
             /\ Violations(t, auth.keys) # Violations(auth.token, auth.keys))
            => Verify(t, auth.keys) # auth.reasons


\* the first segment of a path after the API prefix: what precedes its first "/"
FirstSegment(path) ==
    LET rest == Tail(path)
        n == CHOOSE n \in 0..Len(rest) :
                /\ \A i \in 1..n : rest[i] # "/"
                /\ n = Len(rest) \/ rest[n + 1] = "/"
    IN SubSeq(rest, 1, n)
RaisedKeys ==
    {k \in DOMAIN redis' : k \notin DOMAIN redis \/ redis'[k].val > redis[k].val}

\* C28: the counter of a request is that of its identity, the first segment of
\* its path after the API prefix, and the day: paths with the same first
\* segment hit the same counter and paths with different first segments never do
C28_BucketIsFirstSegment ==
    [][RaisedKeys # {} =>
         LET r == rl'["p1"]
             key == RateKey(r.user, FirstSegment(r.path), now)
         IN /\ RaisedKeys = {key}
            /\ \A q \in BucketPaths :
                  (FirstSegment(q) = FirstSegment(r.path))
                     <=> (RateKey(r.user, EndpointOf(q), now) = key)]_vars

\* a request to a path below /api/query counted second on the counter of
\* query, next to separate counters for save and save-tweet
C28_Witness ==
    /\ rl["p1"].path = QueryPath \o <<"/", "x">>
    /\ rl["p1"].cnt = 2
    /\ redis[RateKey(UserA, <<"query">>, now)].val = 2
    /\ RateKey(UserA, <<"save">>, now) \in DOMAIN redis
    /\ RateKey(UserA, <<"save", "-", "tweet">>, now) \in DOMAIN redis


\* C30: concurrent admission checks on one counter in one window, with Redis
\* reachable: every check is returned a count of its own, an admitted check
\* was returned a count within the limit, and at most Limit checks are admitted
C30_AtMostLimitAdmitted ==
    /\ Cardinality(admitted.seen) = admitted.checks
    /\ admitted.n <= Limit
    /\ \A p \in Procs : resp[p].status = "next" => (rl[p].cnt >= 1 /\ rl[p].cnt <= Limit)

\* both goroutines past INCR at the same time, one with the last admitted
\* count and one with the first refused, and 30 checks admitted
C30_Witness ==
    /\ admitted.n = Limit
    /\ admitted.checks > Limit
    /\ rl["p1"].cnt = Limit + 1 /\ rl["p1"].pc = "getcount"
    /\ rl["p2"].cnt = Limit + 2 /\ rl["p2"].pc = "getcount"


\* C31: GetOrCreateSession with the id of an existing session returns that id
\* and leaves the store as it was (messages, creation and update time of the
\* session, and every other session), whichever identity calls
C31_GetExistingIsIdempotent ==
    (call.op = "create" /\ call.existed) =>
      /\ call.sid = call.arg
      /\ lastSid = call.arg
      /\ sessions = call.before

\* identity a names the session of identity b, which has a message and was
\* created a quarter of an hour ago
C31_Witness ==
    /\ call.op = "create" /\ call.existed
    /\ call.user = UserA
    /\ call.arg = <<"b", "-", "s1">>
    /\ Len(sessions[call.arg].Messages) > 0
    /\ sessions[call.arg].CreatedAt < now


\* C32: no operation removes a session: an id in the store stays in the store,
\* the session count never decreases, and a reset-session request adds a new
\* session and leaves the one it names in place
C32_SessionsNeverRemoved ==
    [][/\ DOMAIN sessions \subseteq DOMAIN sessions'
       /\ Cardinality(DOMAIN sessions') >= GetSessionCount
       /\ \A p \in Procs :
             (hq'[p] # hq[p] /\ hq'[p].op = "reset" /\ hq'[p].status = "200") =>
                /\ hq'[p].sid \notin DOMAIN sessions
                /\ DOMAIN sessions' = DOMAIN sessions \cup {hq'[p].sid}
                /\ \A s \in DOMAIN sessions : sessions'[s] = sessions[s]]_vars

\* identity a has reset its session a-s1, which holds messages: both are stored
C32_Witness ==
    /\ hq["p1"].op = "reset" /\ hq["p1"].status = "200"
    /\ hq["p1"].arg = <<"a", "-", "s1">>
    /\ <<"a", "-", "s1">> \in DOMAIN sessions
    /\ Len(sessions[<<"a", "-", "s1">>].Messages) > 0
    /\ hq["p1"].sid \in DOMAIN sessions
    /\ GetSessionCount >= 2

\* C34: a query uses a session only of its authenticated caller: no query gets
\* or creates, appends to, or is fed the history of a session whose id carries
\* the prefix of another identity
OtherPrefix(sessionId, authenticatedUserId) ==
    \E other \in HandlerUsers \ {authenticatedUserId} : HasPrefix(sessionId, other \o <<"-">>)
C34_QueryOnlyOwnSession ==
    \A p \in Procs :
       (hq[p].op = "query" /\ hq[p].sid # <<>>) => ~OtherPrefix(hq[p].sid, hq[p].auth)

\* C35: when no query is in progress every stored history consists of whole
\* user/assistant pairs: even length, user then assistant
Quiescent == \A p \in Procs : hq[p].pc \in {"idle", "done"}
WholePairs(messages) ==
    /\ Len(messages) % 2 = 0
    /\ \A i \in 1..Len(messages) :
          messages[i].Role = IF i % 2 = 1 THEN "user" ELSE "assistant"
C35_HistoryIsWholePairs ==
    Quiescent => \A s \in DOMAIN sessions : WholePairs(sessions[s].Messages)

\* C38 as stated: every query or reset-session request whose body user id
\* differs from the authenticated identity is answered 403 and leaves the
\* session store unchanged
Answering(p) == hq'[p] # hq[p] /\ hq[p].pc \in {"idle", "done"}
C38_Original ==
    [][\A p \in Procs :
          (Answering(p) /\ hq'[p].user # hq'[p].auth) =>
             /\ hq'[p].status = "403"
             /\ UNCHANGED <<sessions, appended>>]_vars

\* C38: a query or reset-session request whose body has its required fields
\* and whose user id differs from the authenticated identity is answered 403;
\* one with a required field missing is answered 400; both leave the session
\* store unchanged
BodyBinds(h) ==
    /\ h.user # <<>>
    /\ h.op = "query" => h.text # ""
    /\ h.op = "reset" => h.arg # <<>>
C38_MismatchIs403NoChange ==
    [][\A p \in Procs :
          (Answering(p) /\ hq'[p].user # hq'[p].auth) =>
             /\ hq'[p].status = IF BodyBinds(hq'[p]) THEN "403" ELSE "400"
             /\ hq'[p].pc = "done" /\ hq'[p].sid = <<>>
             /\ UNCHANGED <<sessions, appended>>]_vars

\* identity a answered 403 for a query in the name of b on its own stored session
C38_Witness ==
    /\ hq["p1"].op = "query" /\ hq["p1"].status = "403"
    /\ hq["p1"].user = UserB
    /\ hq["p1"].arg \in DOMAIN sessions
    /\ Len(sessions[hq["p1"].arg].Messages) > 0


\* how the claim has a surviving match shown: its first 50 characters and an
\* ellipsis when the text is longer than 50, the whole text otherwise
ShownAs(text) == IF Len(text) > 50 THEN Prefix50(text) \o <<"...">> ELSE text

\* C33: every block of the context shows a surviving match, one with the
\* highest score of its key, as its first 50 characters followed by "..." when
\* its text is longer than 50 characters and in full, without ellipsis, otherwise
C33_TruncatedShownWithEllipsis ==
    Ranked =>
      \A j \in 1..Len(rank.contextText) :
         \E i \in ConsideredIdx :
            /\ rank.matches[i].score = MaxScore(Prefix50(rank.matches[i].text))
            /\ BlockText(rank.contextText[j]) = ShownAs(rank.matches[i].text)


\* the parts of C36 that do not depend on the outcome of EXPIRE: a time-to-live
\* once set is never changed; it is set only by the check that created the key,
\* to one window from then; a key is gone when its time-to-live is reached; an
\* INCR on an absent key (after expiry, or on a new day) returns 1 and that
\* check is admitted
ExpiryFixed(k) ==
    /\ (k \in DOMAIN redis /\ redis[k].exp # NoExp) => redis'[k].exp = redis[k].exp
    /\ (redis'[k].exp # NoExp /\ (k \notin DOMAIN redis \/ redis[k].exp = NoExp)) =>
          /\ redis'[k].exp = now + WindowMinutes
          /\ \E p \in Procs : /\ rl[p].pc = "expire" /\ rl[p].cnt = 1
                              /\ k = RateKey(rl[p].user, rl[p].ep, now)
    /\ redis'[k].exp # NoExp => redis'[k].exp > now'
FirstAfterExpiry(p) ==
    /\ (/\ rl[p].pc = "idle" /\ rl'[p].pc # "idle" /\ redis' # redis
        /\ RateKey(rl'[p].user, rl'[p].ep, now) \notin DOMAIN redis)
          => rl'[p].cnt = 1 /\ rl'[p].pc = "expire"
    /\ (rl[p].pc = "expire" /\ rl'[p].pc = "idle") =>
          rl[p].cnt = 1 /\ resp'[p].status = "next"

\* C36 as stated: every counter is gone one window after its creation
C36_Original ==
    [][/\ \A k \in DOMAIN redis' :
             /\ ExpiryFixed(k)
             /\ AllIdle' => redis'[k].exp # NoExp
       /\ \A p \in Procs : FirstAfterExpiry(p)]_vars

\* C36: the expiry of a counter is fixed by the check that creates the key, one
\* window from then, and no later increment extends it, unless the EXPIRE of
\* the creating check failed, in which case the key has no expiry and never
\* gets one; the first check after the expiry or on a new day observes 1 and
\* is admitted
C36_ExpiryFixedAtCreation ==
    [][/\ \A k \in DOMAIN redis' :
             /\ ExpiryFixed(k)
             /\ (AllIdle' /\ redis'[k].exp = NoExp) =>
                   /\ k \in DOMAIN redis
                   /\ redis[k].exp = NoExp
                   /\ Expiring(k) => ExpireFailed(k)
       /\ \A p \in Procs : FirstAfterExpiry(p)]_vars

\* a check observing 1 and admitted in a later window, its key due to be gone
\* one window from now
C36_Witness ==
    /\ AllIdle
    /\ now >= WindowMinutes
    /\ rl["p1"].cnt = 1
    /\ resp["p1"].status = "next" /\ ~resp["p1"].err
    /\ redis[RateKey(UserA, <<"query">>, now)] = [val |-> 1, exp |-> now + WindowMinutes]


\* C37: rejection is never permanent: with Redis reachable, time advancing and
\* the identity sending on, every rejection on a day is followed by an
\* admission, by the expiry of the counter or at the latest when the day
\* changes, also when the EXPIRE of the creating check had failed
Rejected == resp["p1"].status = "429"
Admitted == resp["p1"].status = "next"
C37_RejectionNotPermanent == (Rejected /\ now < DayMinutes) ~> Admitted

\* admitted at count 1 on the new day while yesterday's counter, left without
\* expiry above the limit, is still stored
C37_Witness ==
    /\ Admitted
    /\ rl["p1"].cnt = 1
    /\ DateStr(now) = "2025-01-02"
    /\ \E k \in DOMAIN redis : redis[k].exp = NoExp /\ redis[k].val > Limit


\* C39: the ranking pass is deterministic: a second run on the same list of
\* matches produces the context block of the first (same entries, same
\* numbering, same order)
C39_RankingDeterministic ==
    (rank.pc = "done" /\ rank.runs = 2) => rank.contextText = rank.previous

====
